---------------------------- MODULE Spec2Model ----------------------------
(***************************************************************************)
(* The MKV -> MP4 conversion pipeline of                                   *)
(* scripts/media-conversion/convert_mkv_to_mp4.py as a state machine.      *)
(*                                                                         *)
(* One run is one invocation of main() on a fixed input path.  The three   *)
(* paths a run touches are "orig" (the input file), "tmp" (output_file +   *)
(* ".tmp.mp4") and "out" (the input path with suffix .mp4).  External      *)
(* tools (ffprobe, ffmpeg, the file system, the tracker, Radarr) answer    *)
(* nondeterministically within what the file contents allow.  Runs follow  *)
(* one another on the same path; a temp file at the start of a run is one   *)
(* that an interrupted earlier run left behind.                             *)
(***************************************************************************)
EXTENDS Integers, Sequences, FiniteSets, TLC

VARIABLES
    fs,               \* path -> file record: what is on disk
    isMkv,            \* input_path.suffix.lower() == '.mkv'
    codec,            \* codec_name of the first video stream of the input
    duration,         \* format.duration of the input, in seconds
    tracker,          \* corruption_tracker: "absent", "working" or "raising"
    radarr_enabled,   \* get_radarr_config()['enabled']
    run,              \* number of the current invocation of main()
    pc,               \* position of the current invocation
    info,             \* process_file: info = get_video_info(input)
    est_minutes,      \* process_file local, in units of 1/3600 minute
    should_blocklist, \* process_file local
    failure_reason,   \* process_file local
    success,          \* process_file: success = convert_to_mp4(...)
    deleted,          \* process_file: deleted = safe_delete_original(...)
    retval,           \* what process_file returned: "none", "true", "false"
    exit_code,        \* sys.exit code of main(), -1 while running
    terminal,         \* the branch on which the run ended (the outcome taxonomy)
    output_size,      \* convert_to_mp4 local: os.path.getsize(temp_output)
    gate,             \* result of the size validation of this run
    events,           \* the tool invocations of this run, in order
    recoveries,       \* calls of blocklist_release_in_radarr in this run
    ledger,           \* rows of corruption_events, oldest first
    atStart,          \* fs as it was when the run started
    call,             \* a function called on its own: its name and arguments
    call_ret          \* what that call has done and returned so far

vars == <<fs, isMkv, codec, duration, tracker, radarr_enabled, run, pc, info,
          est_minutes, should_blocklist, failure_reason, success, deleted, retval,
          exit_code, terminal, output_size, gate, events, recoveries, ledger,
          atStart, call, call_ret>>

-----------------------------------------------------------------------------
(* Bounds and program constants *)

MaxRuns == 2

\* MIN_OUTPUT_SIZE_RATIO = 0.90 and MAX_OUTPUT_SIZE_RATIO = 1.05, in percent
MIN_OUTPUT_SIZE_RATIO == 90
MAX_OUTPUT_SIZE_RATIO == 105
\* A build with the output verification switched off
VERIFY_OUTPUT_Off == FALSE

VERIFY_OUTPUT == TRUE

Paths == {"orig", "tmp", "out"}

\* format.size as ffprobe reports it for the input (0: the field is missing)
InputSizes == {0, 1000}
\* os.path.getsize of what ffmpeg wrote
OutputSizes == {800, 899, 900, 1000, 1050, 1051, 1300}

Codecs == {"hevc", "h264", "h265", "mpeg4", "mpeg2video", "av1", "vp9"}

\* format.duration of the input (0: the field is missing)
Durations == {0, 5400}

NoFile == [exists |-> FALSE, ok |-> FALSE, video |-> FALSE, size |-> 0, by |-> 0]

\* ok: ffprobe exits 0 with well-formed metadata and at least one stream;
\* video: one of the streams is a video stream; by: the run that wrote it
\* (0: it was there before the first run).
File(ok, video, size, by) ==
    [exists |-> TRUE, ok |-> ok, video |-> video, size |-> size, by |-> by]

\* no function is called on its own while main() runs
NoCall == [fn |-> "", arg |-> <<>>]

NotCalled == [done |-> FALSE, value |-> <<>>]

NoInfo == [present |-> FALSE, codec |-> "", duration |-> 0, size |-> 0]

-----------------------------------------------------------------------------
(* verify_file_integrity *)

\* What the ffprobe call of verify_file_integrity can do on a file.
VerifyOutcomes(f) ==
    IF f.exists /\ f.ok
    THEN {"valid", "timeout", "exception"}
    ELSE {"nonzero_exit", "bad_structure", "bad_json", "timeout", "exception"}

\* The check "len(data['streams']) > 0" dropped: metadata without streams passes
VerifyValid_NoStreamCheck(outcome) == outcome \in {"valid", "bad_structure"}

\* is_valid of verify_file_integrity: only the branch of line 112-114.
VerifyValid(outcome) == outcome = "valid"

\* Only the non-zero-exit branch (lines 125-144) logs to the tracker.
VerifyLogsEvent(outcome) == outcome = "nonzero_exit"

Event(op, target, ok) == [op |-> op, target |-> target, ok |-> ok]

LedgerRow(file, type, stage, status) ==
    [run |-> run, file |-> file, type |-> type, stage |-> stage,
     status |-> status, blocklisted |-> FALSE, redownload |-> FALSE]

\* corruption_tracker.log_corruption_event under "if corruption_tracker: try"
LogCorruption(led, file, type, stage, status) ==
    IF tracker = "working"
    THEN Append(led, LedgerRow(file, type, stage, status))
    ELSE led

VerifyLedger(led, outcome, file, stage) ==
    IF VerifyLogsEvent(outcome)
    THEN LogCorruption(led, file, "integrity_check_failed", stage, "corrupted")
    ELSE led

-----------------------------------------------------------------------------
(* get_video_info *)

ProbeOutcomes(f) ==
    IF f.exists /\ f.ok /\ f.video THEN {"info", "error"}
    ELSE IF f.exists /\ f.ok THEN {"no_video", "error"}
    ELSE {"error"}

ProbeInfo(outcome, f) ==
    IF outcome = "info"
    THEN [present |-> TRUE, codec |-> codec, duration |-> duration,
          size |-> f.size]
    ELSE NoInfo

-----------------------------------------------------------------------------
(* estimate_conversion_time *)

\* mpeg2video given the rate of mpeg4
EstimatedMinutes_Mpeg2AsMpeg4(c, seconds) ==
    CASE c \in {"hevc", "h264", "h265"} -> seconds * 3
      [] c = "av1" -> seconds * 1800
      [] c \in {"mpeg4", "mpeg2video"} -> seconds * 120
      [] OTHER -> 0

\* estimated_minutes = duration_hours * rate with duration_hours =
\* info['duration'] / 3600, as a multiple of 1/3600 minute: seconds * rate.
EstimatedMinutes(c, seconds) ==
    CASE c \in {"hevc", "h264", "h265"} -> seconds * 3
      [] c = "av1" -> seconds * 1800
      [] c = "mpeg4" -> seconds * 120
      [] c = "mpeg2video" -> seconds * 90
      [] OTHER -> 0


\* av1 taken for a convertible codec
ShouldConvert_Av1(c) == c \in {"hevc", "h264", "h265", "mpeg4", "mpeg2video", "av1"}

ShouldConvert(c) == c \in {"hevc", "h264", "h265", "mpeg4", "mpeg2video"}

-----------------------------------------------------------------------------
Init ==
    /\ \E o \in {NoFile}
                \cup {File(TRUE, v, s, 0) : v \in BOOLEAN, s \in InputSizes}
                \cup {File(FALSE, FALSE, s, 0) : s \in InputSizes},
          u \in {NoFile, File(TRUE, TRUE, 1000, 0)} :
            fs = [p \in Paths |->
                    IF p = "orig" THEN o ELSE IF p = "tmp" THEN NoFile ELSE u]
    /\ atStart = fs
    /\ isMkv \in BOOLEAN
    /\ codec \in Codecs
    /\ duration \in Durations
    /\ tracker \in {"absent", "working", "raising"}
    /\ radarr_enabled \in BOOLEAN
    /\ run = 1
    /\ pc = "entry"
    /\ info = NoInfo
    /\ est_minutes = 0
    /\ should_blocklist = FALSE
    /\ failure_reason = ""
    /\ success = FALSE
    /\ deleted = FALSE
    /\ retval = "none"
    /\ exit_code = -1
    /\ terminal = "none"
    /\ output_size = 0
    /\ gate = "none"
    /\ events = <<>>
    /\ recoveries = <<>>
    /\ ledger = <<>>
    /\ call = NoCall
    /\ call_ret = NotCalled

-----------------------------------------------------------------------------
(* Helpers shared by the actions *)

envVars == <<isMkv, codec, duration, tracker, radarr_enabled, run, atStart,
             call, call_ret>>

SetFile(path, f) == [fs EXCEPT ![path] = f]

\* The cleanup removing input_file instead of temp_output
RemoveTemp_WrongFile == SetFile("orig", NoFile)

\* "if os.path.exists(temp_output): os.remove(temp_output)"
RemoveTemp == SetFile("tmp", NoFile)

\* "<=" written for "<"
SizeTooSmall_Inclusive(out, in) == out * 100 <= MIN_OUTPUT_SIZE_RATIO * in

\* The lower bound never applied
SizeTooSmall_Never(out, in) == FALSE

\* size_ratio < MIN_OUTPUT_SIZE_RATIO, with size_ratio = output_size / input_size.
\* Python's int / int is the correctly rounded quotient, and for sizes below
\* 10^15 bytes no quotient other than 9/10 (21/20) itself rounds to the double
\* 0.90 (1.05), so the comparison is the exact rational one.
SizeTooSmall(out, in) == out * 100 < MIN_OUTPUT_SIZE_RATIO * in

\* size_ratio > MAX_OUTPUT_SIZE_RATIO
SizeTooLarge(out, in) == out * 100 > MAX_OUTPUT_SIZE_RATIO * in

\* The final integrity check not consulted before the delete
CanDelete_NoVerify(outExists, probed, verified) == outExists /\ probed

\* Only the existence of the output consulted before the delete
CanDelete_ExistsOnly(outExists, probed, verified) == outExists

\* safe_delete_original reaches os.remove(input_file) only past its three checks
CanDelete(outExists, probed, verified) == outExists /\ probed /\ verified

-----------------------------------------------------------------------------
\* The checks before the try block without the one of lines 813-816
ProcessFileEntry_NoOutputCheck ==
    /\ pc = "entry"
    /\ IF ~fs["orig"].exists
       THEN /\ retval' = "false"
            /\ terminal' = "NotFound"
            /\ pc' = "main_exit"
       ELSE IF ~isMkv
       THEN /\ retval' = "true"
            /\ terminal' = "NotMkv"
            /\ pc' = "main_exit"
       ELSE /\ retval' = retval
            /\ terminal' = terminal
            /\ pc' = "verify_input"
    /\ should_blocklist' = FALSE
    /\ failure_reason' = ""
    /\ UNCHANGED <<fs, envVars, info, est_minutes, success, deleted, exit_code, output_size,
                   gate, events, recoveries, ledger>>

(* process_file, lines 800-816: the checks before the try block *)

ProcessFileEntry ==
    /\ pc = "entry"
    /\ IF ~fs["orig"].exists
       THEN /\ retval' = "false"
            /\ terminal' = "NotFound"
            /\ pc' = "main_exit"
       ELSE IF ~isMkv
       THEN /\ retval' = "true"
            /\ terminal' = "NotMkv"
            /\ pc' = "main_exit"
       ELSE IF fs["out"].exists
       THEN /\ retval' = "true"
            /\ terminal' = "AlreadyExists"
            /\ pc' = "main_exit"
       ELSE /\ retval' = retval
            /\ terminal' = terminal
            /\ pc' = "verify_input"
    /\ should_blocklist' = FALSE
    /\ failure_reason' = ""
    /\ UNCHANGED <<fs, envVars, info, est_minutes, success, deleted, exit_code, output_size,
                   gate, events, recoveries, ledger>>

\* Step 1 with a second attempt after a first failed verification
VerifyInput_RetriesOnce ==
    /\ pc = "verify_input"
    /\ \E o \in VerifyOutcomes(fs["orig"]) :
        /\ events' = Append(events, Event("verify", "orig", VerifyValid(o)))
        /\ ledger' = VerifyLedger(ledger, o, "orig", "input")
        /\ IF VerifyValid(o)
           THEN /\ pc' = "get_info"
                /\ UNCHANGED <<should_blocklist, failure_reason, retval, terminal>>
           ELSE IF events = <<>>
           THEN /\ pc' = "verify_input"
                /\ UNCHANGED <<should_blocklist, failure_reason, retval, terminal>>
           ELSE /\ should_blocklist' = TRUE
                /\ failure_reason' = "Input file corrupted"
                /\ retval' = "false"
                /\ terminal' = "InputCorrupt"
                /\ pc' = "finally"
    /\ UNCHANGED <<fs, envVars, info, est_minutes, success, deleted, exit_code, output_size,
                   gate, recoveries>>

(* process_file, lines 823-831: Step 1 *)
VerifyInput ==
    /\ pc = "verify_input"
    /\ \E o \in VerifyOutcomes(fs["orig"]) :
        /\ events' = Append(events, Event("verify", "orig", VerifyValid(o)))
        /\ ledger' = VerifyLedger(ledger, o, "orig", "input")
        /\ IF VerifyValid(o)
           THEN /\ pc' = "get_info"
                /\ UNCHANGED <<should_blocklist, failure_reason, retval, terminal>>
           ELSE /\ should_blocklist' = TRUE
                /\ failure_reason' = "Input file corrupted"
                /\ retval' = "false"
                /\ terminal' = "InputCorrupt"
                /\ pc' = "finally"
    /\ UNCHANGED <<fs, envVars, info, est_minutes, success, deleted, exit_code, output_size,
                   gate, recoveries>>

(* process_file, lines 833-842: Step 2 *)
GetVideoInfo ==
    /\ pc = "get_info"
    /\ \E o \in ProbeOutcomes(fs["orig"]) :
        /\ info' = ProbeInfo(o, fs["orig"])
        /\ events' = Append(events, Event("probe", "orig", o = "info"))
        /\ IF o = "info"
           THEN /\ pc' = "estimate"
                /\ UNCHANGED <<should_blocklist, failure_reason, retval, terminal>>
           ELSE /\ should_blocklist' = TRUE
                /\ failure_reason' = "Cannot read video streams"
                /\ retval' = "false"
                /\ terminal' = "UnreadableStreams"
                /\ pc' = "finally"
    /\ UNCHANGED <<fs, envVars, est_minutes, success, deleted, exit_code,
                   output_size, gate, recoveries, ledger>>

\* The infeasible branch also asking for the release to be blocklisted
EstimateConversion_Blocklists ==
    /\ pc = "estimate"
    /\ est_minutes' = EstimatedMinutes(info.codec, info.duration)
    /\ events' = Append(events, Event("plan", "orig", ShouldConvert(info.codec)))
    /\ IF ShouldConvert(info.codec)
       THEN /\ pc' = "convert"
            /\ UNCHANGED <<retval, terminal, should_blocklist, failure_reason>>
       ELSE /\ retval' = "false"
            /\ terminal' = "Infeasible"
            /\ should_blocklist' = TRUE
            /\ failure_reason' = "Conversion process failed"
            /\ pc' = "finally"
    /\ UNCHANGED <<fs, envVars, info, success, deleted, exit_code, output_size,
                   gate, recoveries, ledger>>

(* process_file, lines 854-866: Step 3 *)
EstimateConversion ==
    /\ pc = "estimate"
    /\ est_minutes' = EstimatedMinutes(info.codec, info.duration)
    /\ events' = Append(events, Event("plan", "orig", ShouldConvert(info.codec)))
    /\ IF ShouldConvert(info.codec)
       THEN /\ pc' = "convert"
            /\ UNCHANGED <<retval, terminal>>
       ELSE /\ retval' = "false"
            /\ terminal' = "Infeasible"
            /\ pc' = "finally"
    /\ UNCHANGED <<fs, envVars, info, should_blocklist, failure_reason, success,
                   deleted, exit_code, output_size, gate, recoveries, ledger>>

-----------------------------------------------------------------------------
(* convert_to_mp4 *)

\* "return False" of convert_to_mp4 on the branch named by t
ConvertFails(t) ==
    /\ success' = FALSE
    /\ terminal' = t
    /\ pc' = "convert_return"

(* lines 276-313: remove a stale temp file, start ffmpeg.  os.remove at line  *)
(* 281 is outside the try block: if it raises, process_file's except clause   *)
(* (lines 913-917) takes over.  Popen raising is caught at line 382.          *)
ConvertBegin ==
    /\ pc = "convert"
    /\ \E removed \in BOOLEAN, started \in BOOLEAN :
        IF fs["tmp"].exists /\ ~removed
        THEN /\ should_blocklist' = TRUE
             /\ failure_reason' = "Unexpected error"
             /\ retval' = "false"
             /\ terminal' = "UnexpectedError"
             /\ pc' = "finally"
             /\ UNCHANGED <<fs, success, events>>
        ELSE /\ fs' = RemoveTemp
             /\ events' = Append(events, Event("transcode", "tmp", started))
             /\ IF started
                THEN /\ pc' = "ffmpeg"
                     /\ UNCHANGED <<success, terminal>>
                ELSE ConvertFails("ConversionProcessFailed")
             /\ UNCHANGED <<should_blocklist, failure_reason, retval>>
    /\ UNCHANGED <<envVars, info, est_minutes, deleted, exit_code, output_size, gate,
                   recoveries, ledger>>

\* What ffmpeg can leave at temp_output when it exits.
FfmpegOutputs ==
    {NoFile} \cup {File(k, k, s, run) : k \in BOOLEAN, s \in OutputSizes}

(* lines 317-335: ffmpeg exits; return code and existence of the temp file *)
FfmpegExit ==
    /\ pc = "ffmpeg"
    /\ \E rc \in {0, 1}, f \in FfmpegOutputs :
        IF rc # 0
        THEN /\ fs' = RemoveTemp
             /\ ConvertFails("ConversionProcessFailed")
        ELSE IF ~f.exists
        THEN /\ fs' = fs
             /\ ConvertFails("ConversionProcessFailed")
        ELSE /\ fs' = SetFile("tmp", f)
             /\ pc' = "size_check"
             /\ UNCHANGED <<success, terminal>>
    /\ UNCHANGED <<envVars, info, est_minutes, should_blocklist, failure_reason, deleted,
                   retval, exit_code, output_size, gate, events, recoveries,
                   ledger>>

(* KeyboardInterrupt while ffmpeg runs: not an Exception, so neither line 382 *)
(* nor line 913 catches it; process_file's finally finds should_blocklist     *)
(* False; main (lines 986-989) logs and exits 130.  Nothing removes what      *)
(* ffmpeg has written so far.                                                 *)
Interrupt ==
    /\ pc = "ffmpeg"
    /\ \E f \in {NoFile, File(FALSE, FALSE, 800, run)} : fs' = SetFile("tmp", f)
    /\ exit_code' = 130
    /\ terminal' = "Interrupted"
    /\ pc' = "exited"
    /\ UNCHANGED <<envVars, info, est_minutes, should_blocklist, failure_reason, success,
                   deleted, retval, output_size, gate, events, recoveries, ledger>>

(* lines 337-355: the size validation.  input_size = 0 raises                 *)
(* ZeroDivisionError, which line 382 catches: temp removed, return False.     *)
SizeCheck ==
    /\ pc = "size_check"
    /\ output_size' = fs["tmp"].size
    /\ events' = Append(events, Event("size", "tmp",
                        info.size # 0 /\ ~SizeTooSmall(fs["tmp"].size, info.size)))
    /\ IF info.size = 0
       THEN /\ gate' = "error"
            /\ fs' = RemoveTemp
            /\ ConvertFails("ConversionProcessFailed")
       ELSE IF SizeTooSmall(fs["tmp"].size, info.size)
       THEN /\ gate' = "too_small"
            /\ fs' = RemoveTemp
            /\ ConvertFails("OutputTooSmall")
       ELSE /\ gate' = IF SizeTooLarge(fs["tmp"].size, info.size)
                       THEN "warn" ELSE "ok"
            /\ fs' = fs
            /\ pc' = "verify_output"
            /\ UNCHANGED <<success, terminal>>
    /\ UNCHANGED <<envVars, info, est_minutes, should_blocklist, failure_reason, deleted,
                   retval, exit_code, recoveries, ledger>>

(* lines 357-365: verify the temp artifact *)
VerifyOutput ==
    /\ pc = "verify_output"
    /\ IF VERIFY_OUTPUT
       THEN \E o \in VerifyOutcomes(fs["tmp"]) :
            /\ events' = Append(events, Event("verify", "tmp", VerifyValid(o)))
            /\ ledger' = VerifyLedger(ledger, o, "tmp", "output")
            /\ IF VerifyValid(o)
               THEN /\ fs' = fs
                    /\ pc' = "move"
                    /\ UNCHANGED <<success, terminal>>
               ELSE /\ fs' = RemoveTemp
                    /\ ConvertFails("OutputCorrupt")
       ELSE /\ pc' = "move"
            /\ UNCHANGED <<fs, success, terminal, events, ledger>>
    /\ UNCHANGED <<envVars, info, est_minutes, should_blocklist, failure_reason, deleted,
                   retval, exit_code, output_size, gate, recoveries>>

(* lines 367-387: shutil.move to the final path (a rename within one          *)
(* directory), then the existence check.  A failing move raises: the except   *)
(* clause removes the temp file and returns False.  The rename either happens *)
(* or does not, and nothing else touches the directory during a run, so the   *)
(* existence check of lines 375-377 cannot fail after a move that returned.   *)
MoveToFinal ==
    /\ pc = "move"
    /\ \E moved \in BOOLEAN :
        IF moved
        THEN /\ fs' = [fs EXCEPT !["out"] = fs["tmp"], !["tmp"] = NoFile]
             /\ events' = Append(events, Event("move", "out", TRUE))
             /\ success' = TRUE
             /\ terminal' = terminal
             /\ pc' = "convert_return"
        ELSE /\ fs' = RemoveTemp
             /\ events' = Append(events, Event("move", "out", FALSE))
             /\ ConvertFails("PromotionFailed")
    /\ UNCHANGED <<envVars, info, est_minutes, should_blocklist, failure_reason, deleted,
                   retval, exit_code, output_size, gate, recoveries, ledger>>

-----------------------------------------------------------------------------
\* What follows convert_to_mp4 if an exception of the tracker call of lines
\* 880-886 were to reach the handler of line 913
ConvertReturn_TrackerEscapes ==
    /\ pc = "convert_return"
    /\ IF ~success
       THEN /\ should_blocklist' = TRUE
            /\ failure_reason' = IF tracker = "raising"
                                 THEN "Unexpected error"
                                 ELSE "Conversion process failed"
            /\ ledger' = LogCorruption(ledger, "orig", "conversion_failed",
                                       "conversion", "failed")
            /\ retval' = "false"
            /\ pc' = "finally"
       ELSE /\ pc' = "safe_delete"
            /\ UNCHANGED <<should_blocklist, failure_reason, ledger, retval>>
    /\ UNCHANGED <<fs, envVars, info, est_minutes, success, deleted, exit_code, terminal,
                   output_size, gate, events, recoveries>>

(* process_file, lines 870-890: what follows convert_to_mp4 *)
ConvertReturn ==
    /\ pc = "convert_return"
    /\ IF ~success
       THEN /\ should_blocklist' = TRUE
            /\ failure_reason' = "Conversion process failed"
            /\ ledger' = LogCorruption(ledger, "orig", "conversion_failed",
                                       "conversion", "failed")
            /\ retval' = "false"
            /\ pc' = "finally"
       ELSE /\ pc' = "safe_delete"
            /\ UNCHANGED <<should_blocklist, failure_reason, ledger, retval>>
    /\ UNCHANGED <<fs, envVars, info, est_minutes, success, deleted, exit_code, terminal,
                   output_size, gate, events, recoveries>>

(* safe_delete_original, lines 401-429, and process_file lines 894-901.      *)
(* po, vo: what get_video_info and verify_file_integrity do on the final      *)
(* path; rm: whether os.remove(input_file) succeeds (if it raises, line 426   *)
(* returns False).                                                            *)
SafeDeleteOriginal ==
    /\ pc = "safe_delete"
    /\ \E po \in ProbeOutcomes(fs["out"]), vo \in VerifyOutcomes(fs["out"]),
          rm \in BOOLEAN :
        LET outExists == fs["out"].exists
            probed    == outExists /\ po = "info"
            verified  == probed /\ VerifyValid(vo)
            del       == CanDelete(outExists, probed, verified) /\ rm
            ev1 == IF outExists
                   THEN Append(events, Event("probe", "out", probed))
                   ELSE events
            ev2 == IF probed
                   THEN Append(ev1, Event("verify", "out", VerifyValid(vo)))
                   ELSE ev1
            ev3 == IF CanDelete(outExists, probed, verified)
                   THEN Append(ev2, Event("remove", "orig", rm))
                   ELSE ev2
        IN  /\ events' = ev3
            /\ ledger' = IF probed
                         THEN VerifyLedger(ledger, vo, "out", "final_verification")
                         ELSE ledger
            /\ fs' = IF del THEN SetFile("orig", NoFile) ELSE fs
            /\ deleted' = del
            /\ terminal' = IF del THEN "Done" ELSE "ManualReviewRequired"
    /\ pc' = "log_success"
    /\ UNCHANGED <<envVars, info, est_minutes, should_blocklist, failure_reason, success,
                   retval, exit_code, output_size, gate, recoveries>>

(* process_file, lines 903-911: log_success_event(output_file) and return    *)
(* True.  logged: log_success_event inserted a row (it returns -1 without     *)
(* inserting when extract_metadata yields nothing, and may raise).            *)
LogSuccess ==
    /\ pc = "log_success"
    /\ \E logged \in BOOLEAN :
        ledger' = IF tracker = "working" /\ logged
                  THEN Append(ledger, LedgerRow("out", "none", "completed", "success"))
                  ELSE ledger
    /\ retval' = "true"
    /\ pc' = "finally"
    /\ UNCHANGED <<fs, envVars, info, est_minutes, should_blocklist, failure_reason, success,
                   deleted, exit_code, terminal, output_size, gate, events,
                   recoveries>>

-----------------------------------------------------------------------------
(* The Radarr API as one call of blocklist_release_in_radarr meets it: what   *)
(* each endpoint would answer if asked.  "status": a response with an error   *)
(* status code; "exc": requests raises (connection refused, timeout, a body   *)
(* that is not JSON).  A movie-file record has an id and a path whose base    *)
(* name is the failed file's ("target") or not; a history entry has an        *)
(* eventType, a downloadId (has_id: it is not empty) and a sourceTitle        *)
(* (source).  Radarr lists the history newest first.                          *)
MovieFile(id, name) == [id |-> id, name |-> name]

HistoryEntry(source, eventType, has_id) ==
    [source |-> source, eventType |-> eventType, has_id |-> has_id]

Answer(answer, body) == [answer |-> answer, body |-> body]

HistoryKinds ==
    {<<"grabbed", TRUE>>, <<"grabbed", FALSE>>, <<"downloadFolderImported", TRUE>>}

\* every list of at most two entries; the source of an entry is its position
HistoryLists ==
    {<<>>}
    \cup {<<HistoryEntry(1, k[1], k[2])>> : k \in HistoryKinds}
    \cup {<<HistoryEntry(1, k[1], k[2]), HistoryEntry(2, l[1], l[2])>> :
            k \in HistoryKinds, l \in HistoryKinds}

MovieFileLists ==
    {<<>>,
     <<MovieFile(1, "other")>>,
     <<MovieFile(1, "target")>>,
     <<MovieFile(1, "other"), MovieFile(2, "target")>>,
     <<MovieFile(1, "target"), MovieFile(2, "other")>>}

Failures == {Answer("status", <<>>), Answer("exc", <<>>)}

\* every answer of the API to one call
AllRadarrResponses ==
    [movie     : {"found", "missing", "status", "exc"},   \* GET /api/v3/movie
     files     : Failures \cup {Answer("ok", b) : b \in MovieFileLists},
     history   : Failures \cup {Answer("ok", b) : b \in HistoryLists},
     blocklist : {"ok", "status", "exc"},                 \* POST /api/v3/blocklist
     search    : {"ok", "status", "exc"},                 \* POST /api/v3/command
     delete    : {"ok", "status", "exc"}]                 \* DELETE /api/v3/moviefile/id

\* the answers met by the calls that end a failed run: one list of either kind
\* with, and one without, the record looked for
RadarrResponses ==
    {api \in AllRadarrResponses :
        /\ api.files.answer = "ok"
            => api.files.body \in {<<MovieFile(1, "other")>>,
                                   <<MovieFile(1, "other"), MovieFile(2, "target")>>}
        /\ api.history.answer = "ok"
            => api.history.body \in {<<>>,
                                     <<HistoryEntry(1, "grabbed", FALSE),
                                       HistoryEntry(2, "grabbed", TRUE)>>}}

\* A request as the call sent it, with what came back: outcome is the answer
\* as the call takes it, body the list a GET returned.
Request(endpoint, outcome) ==
    [endpoint |-> endpoint, outcome |-> outcome, id |-> 0, reason |-> "",
     body |-> <<>>]

\* a GET with the list it returned
RequestList(endpoint, outcome, answer) ==
    [endpoint |-> endpoint, outcome |-> outcome, id |-> 0, reason |-> "",
     body |-> answer.body]

\* a request that names a record of Radarr (and, for the blocklist, the reason)
RequestFor(endpoint, id, reason, outcome) ==
    [endpoint |-> endpoint, outcome |-> outcome, id |-> id, reason |-> reason,
     body |-> <<>>]

\* What a call of blocklist_release_in_radarr did: the requests it sent, each
\* with the answer it got, and the value it returned.
Recovered(requests, result) == [requests |-> requests, result |-> result]

\* find_radarr_movie, lines 538-572: one GET; None unless a title matches
FindRadarrMovie(api) == Request("GET movie", api.movie)

\* The search request sent again when the first was not accepted
TriggerMovieSearch_Retries(reqs, api) ==
    IF api.search = "ok"
    THEN Append(reqs, Request("POST command", api.search))
    ELSE reqs \o <<Request("POST command", api.search),
                   Request("POST command", api.search)>>

\* trigger_movie_search, lines 717-749: one POST, its own try/except
TriggerMovieSearch(reqs, api) == Append(reqs, Request("POST command", api.search))

\* The DELETE sent for the first record of the list
DeleteMovieFile_FirstRecord(reqs, id, api) ==
    Append(reqs, RequestFor("DELETE moviefile", 1, "", api.delete))

\* delete_movie_file, lines 763-787: one DELETE, its own try/except
DeleteMovieFile(reqs, id, api) ==
    Append(reqs, RequestFor("DELETE moviefile", id, "", api.delete))

\* lines 633-639: the position of the first record whose base name is the
\* failed file's, 0 if there is none
MatchingMovieFile(body) ==
    LET hits == {i \in 1..Len(body) : body[i].name = "target"}
    IN  IF hits = {} THEN 0 ELSE CHOOSE i \in hits : \A j \in hits : i <= j

\* lines 658-662: the position of the first 'grabbed' entry with a downloadId,
\* 0 if there is none
GrabbedEntry(body) ==
    LET hits == {i \in 1..Len(body) :
                    body[i].eventType = "grabbed" /\ body[i].has_id}
    IN  IF hits = {} THEN 0 ELSE CHOOSE i \in hits : \A j \in hits : i <= j

\* the answer of the movie-file request as the call takes it
FilesOutcome(api) ==
    IF api.files.answer # "ok" THEN api.files.answer
    ELSE IF MatchingMovieFile(api.files.body) # 0 THEN "match" ELSE "nomatch"

\* the answer of the history request as the call takes it
HistoryOutcome(api) ==
    IF api.history.answer # "ok" THEN api.history.answer
    ELSE IF GrabbedEntry(api.history.body) # 0 THEN "grabbed" ELSE "none"

(* blocklist_release_in_radarr, lines 586-703.  Without an API key it returns *)
(* False at once (line 588).  The requests of lines 620 (movie files), 648     *)
(* (history) and 673 (blocklist) are made directly under the function's own   *)
(* try: when one of them raises, lines 699-703 return False and nothing       *)
(* further is sent.  An error status of the movie-file request returns False  *)
(* (line 628); an error status of the history request skips the blocklist     *)
(* step; one of the blocklist request is only logged (line 684).  The result  *)
(* of trigger_movie_search and of delete_movie_file is not looked at.  The    *)
(* path always yields a title (get_movie_info_from_path falls back to the     *)
(* name of the parent directory).                                             *)
BlocklistReleaseInRadarr(reason, enabled, api) ==
    LET files   == FilesOutcome(api)
        history == HistoryOutcome(api)
        mf == IF files = "match"
              THEN api.files.body[MatchingMovieFile(api.files.body)]
              ELSE MovieFile(0, "")
        entry == IF history = "grabbed"
                 THEN api.history.body[GrabbedEntry(api.history.body)]
                 ELSE HistoryEntry(0, "", FALSE)
        r1 == <<FindRadarrMovie(api)>>
        r2 == Append(r1, RequestList("GET moviefile", files, api.files))
        r3 == Append(r2, RequestList("GET history", history, api.history))
        r4 == IF history = "grabbed"
              THEN Append(r3, RequestFor("POST blocklist", entry.source, reason,
                                         api.blocklist))
              ELSE r3
    IN  IF ~enabled THEN Recovered(<<>>, FALSE)
        ELSE IF api.movie # "found" THEN Recovered(r1, FALSE)
        ELSE IF files \in {"status", "exc"} THEN Recovered(r2, FALSE)
        ELSE IF files = "nomatch"
        THEN Recovered(TriggerMovieSearch(r2, api), TRUE)
        ELSE IF history = "exc" THEN Recovered(r3, FALSE)
        ELSE IF history = "grabbed" /\ api.blocklist = "exc"
        THEN Recovered(r4, FALSE)
        ELSE Recovered(DeleteMovieFile(TriggerMovieSearch(r4, api), mf.id, api),
                       TRUE)

\* failure_reason as process_file sets it (lines 829, 840, 874, 916)
FailureReasons ==
    {"Input file corrupted", "Cannot read video streams",
     "Conversion process failed", "Unexpected error"}

\* What a call can do and return, over the answers Radarr may give
RecoveryRuns ==
    [reason \in FailureReasons, enabled \in BOOLEAN |->
        {BlocklistReleaseInRadarr(reason, enabled, api) : api \in RadarrResponses}]

\* The last row of led whose file_path is the input file, 0 if there is none:
\* "WHERE file_path = ? ORDER BY timestamp DESC LIMIT 1"
LastRowOfInput(led) ==
    LET hits == {i \in 1..Len(led) : led[i].file = "orig"}
    IN  IF hits = {} THEN 0 ELSE CHOOSE i \in hits : \A j \in hits : j <= i

(* process_file, lines 919-954: the finally clause.  updated: the UPDATE of   *)
(* lines 936-942 ran (it needs an SQLite built with UPDATE ... LIMIT, else    *)
(* it raises and line 944 logs a warning).                                    *)
Finally ==
    /\ pc = "finally"
    /\ IF should_blocklist
       THEN \E did \in RecoveryRuns[failure_reason, radarr_enabled],
               updated \in BOOLEAN :
            LET r   == did.result
                i   == LastRowOfInput(ledger)
            IN  /\ recoveries' = Append(recoveries,
                                        [reason |-> failure_reason,
                                         result |-> r,
                                         requests |-> did.requests])
                /\ ledger' =
                     IF tracker # "absent" /\ updated /\ i # 0
                     THEN [ledger EXCEPT ![i].blocklisted = r,
                                         ![i].redownload = r]
                     ELSE ledger
       ELSE UNCHANGED <<recoveries, ledger>>
    /\ pc' = "main_exit"
    /\ UNCHANGED <<fs, envVars, info, est_minutes, should_blocklist, failure_reason, success,
                   deleted, retval, exit_code, terminal, output_size, gate,
                   events>>

\* sys.exit(0) on both branches
ExitCode_AlwaysZero(ret) == 0

\* main, lines 973-984: sys.exit(0) if process_file returned True, else 1
ExitCode(ret) == IF ret = "true" THEN 0 ELSE 1

(* main, lines 971-984 *)
MainExit ==
    /\ pc = "main_exit"
    /\ exit_code' = ExitCode(retval)
    /\ pc' = "exited"
    /\ UNCHANGED <<fs, envVars, info, est_minutes, should_blocklist, failure_reason, success,
                   deleted, retval, terminal, output_size, gate, events,
                   recoveries, ledger>>

(* The next invocation of main() on the same path *)
NextRun ==
    /\ pc = "exited"
    /\ run < MaxRuns
    /\ run' = run + 1
    /\ atStart' = fs
    /\ pc' = "entry"
    /\ info' = NoInfo
    /\ est_minutes' = 0
    /\ should_blocklist' = FALSE
    /\ failure_reason' = ""
    /\ success' = FALSE
    /\ deleted' = FALSE
    /\ retval' = "none"
    /\ exit_code' = -1
    /\ terminal' = "none"
    /\ output_size' = 0
    /\ gate' = "none"
    /\ events' = <<>>
    /\ recoveries' = <<>>
    /\ UNCHANGED <<fs, isMkv, codec, duration, tracker, radarr_enabled, ledger,
                   call, call_ret>>

Next ==
    \/ ProcessFileEntry
    \/ VerifyInput
    \/ GetVideoInfo
    \/ EstimateConversion
    \/ ConvertBegin
    \/ FfmpegExit
    \/ Interrupt
    \/ SizeCheck
    \/ VerifyOutput
    \/ MoveToFinal
    \/ ConvertReturn
    \/ SafeDeleteOriginal
    \/ LogSuccess
    \/ Finally
    \/ MainExit
    \/ NextRun

Spec == Init /\ [][Next]_vars

-----------------------------------------------------------------------------
(* Single calls.  The functions below do not depend on where main() stands:   *)
(* each is called once on arguments drawn from a bounded set, main() being    *)
(* idle.                                                                      *)

pipelineVars ==
    <<fs, isMkv, codec, duration, tracker, radarr_enabled, run, pc, info,
      est_minutes, should_blocklist, failure_reason, success, deleted, retval,
      exit_code, terminal, output_size, gate, events, recoveries, ledger,
      atStart>>

Idle ==
    /\ fs = [p \in Paths |-> NoFile]
    /\ atStart = fs
    /\ isMkv = FALSE
    /\ codec = "hevc"
    /\ duration = 0
    /\ tracker = "absent"
    /\ radarr_enabled = FALSE
    /\ run = 1
    /\ pc = "idle"
    /\ info = NoInfo
    /\ est_minutes = 0
    /\ should_blocklist = FALSE
    /\ failure_reason = ""
    /\ success = FALSE
    /\ deleted = FALSE
    /\ retval = "none"
    /\ exit_code = -1
    /\ terminal = "none"
    /\ output_size = 0
    /\ gate = "none"
    /\ events = <<>>
    /\ recoveries = <<>>
    /\ ledger = <<>>

Call(fn, arg) == [fn |-> fn, arg |-> arg]

Returned(value) == [done |-> TRUE, value |-> value]

\* the arguments of blocklist_release_in_radarr, and what Radarr would answer
RecoverCalls ==
    {Call("blocklist_release_in_radarr",
          [reason |-> r, enabled |-> e, api |-> a]) :
        r \in {"Conversion process failed"}, e \in BOOLEAN,
        a \in AllRadarrResponses}

(* blocklist_release_in_radarr(file_path, reason), lines 575-703 *)
Recover ==
    /\ call.fn = "blocklist_release_in_radarr"
    /\ ~call_ret.done
    /\ call_ret' = Returned(BlocklistReleaseInRadarr(call.arg.reason, call.arg.enabled,
                                                call.arg.api))
    /\ UNCHANGED <<call, pipelineVars>>

-----------------------------------------------------------------------------
(* corruption_tracker.py, _detect_hdr_dv(video_stream, format_info)           *)

\* str.lower() on the strings ffprobe reports
Lower(s) ==
    CASE s = "Mastering display metadata" -> "mastering display metadata"
      [] s = "Content light level metadata" -> "content light level metadata"
      [] s = "DOVI configuration record" -> "dovi configuration record"
      [] s = "Dolby Vision" -> "dolby vision"
      [] s = "HDR10" -> "hdr10"
      [] s = "Main 10" -> "main 10"
      [] OTHER -> s

\* the pairs <<s, t>>, s one of the strings below and t one of the words the
\* function looks for, with t a substring of s (case matters)
SubstringPairs ==
    {<<"smpte2084", "smpte2084">>,
     <<"arib-std-b67", "arib-std-b67">>,
     <<"bt2020-10", "bt2020-10">>, <<"bt2020-10", "bt2020">>,
     <<"bt2020", "bt2020">>,
     <<"dovi", "dovi">>,
     <<"dolby vision", "dolby">>,
     <<"dovi configuration record", "dovi">>,
     <<"mastering display metadata", "mastering display">>,
     <<"content light level metadata", "content light level">>,
     <<"hdr10", "hdr">>}

\* Python's "t in s"
Contains(s, t) == <<s, t>> \in SubstringPairs

\* one entry of side_data_list; luminance: the entry has no max_luminance
\* ("absent"), one that int() accepts ("int"), or one that it rejects, such as
\* the "10000000/10000" ffprobe prints ("rational")
SideData(type, luminance) == [type |-> type, luminance |-> luminance]

SideDataEntries ==
    {SideData("Mastering display metadata", l) : l \in {"absent", "int", "rational"}}
    \cup {SideData("Content light level metadata", "absent"),
          SideData("DOVI configuration record", "absent")}

SideDataLists ==
    {<<>>} \cup {<<a>> : a \in SideDataEntries}
           \cup {<<a, b>> : a \in SideDataEntries, b \in SideDataEntries}

\* the values of format_info['tags'], in the order of the dictionary
TagValues == {"Dolby Vision", "HDR10", "eng"}

TagLists ==
    {<<>>} \cup {<<a>> : a \in TagValues}
           \cup {<<a, b>> : a \in TagValues, b \in TagValues}

HdrCalls ==
    {Call("_detect_hdr_dv",
          [color_transfer |-> ct, color_primaries |-> cp, codec_name |-> cn,
           profile |-> pr, side_data_list |-> sd, tags |-> tg]) :
        ct \in {"", "bt709", "smpte2084", "arib-std-b67", "bt2020-10"},
        cp \in {"bt709", "bt2020"},
        cn \in {"hevc", "dovi"},
        pr \in {"Main 10", "Dolby Vision"},
        sd \in SideDataLists,
        tg \in TagLists}

\* the local hdr_info, the statement the call is at and, inside a loop, the
\* position in the list; raised: the call ended with an exception
HdrState(hdr_info, at, i) ==
    [done |-> FALSE, raised |-> FALSE, value |-> hdr_info, at |-> at, i |-> i]

HdrAt(at) ==
    /\ call.fn = "_detect_hdr_dv"
    /\ call_ret # NotCalled
    /\ ~call_ret.done
    /\ call_ret.at = at

\* the upgrade "if hdr_info['format'] == 'SDR': hdr_info['format'] = 'HDR10'"
\* without its guard
MarkHdr10_Unguarded(hdr_info) ==
    [hdr_info EXCEPT !.is_hdr = TRUE, !.format = "HDR10"]

\* is_hdr = True, and format = 'HDR10' if it was 'SDR' (lines 253-255,
\* 272-274, 298-300)
MarkHdr10(hdr_info) ==
    [hdr_info EXCEPT !.is_hdr = TRUE,
                     !.format = IF @ = "SDR" THEN "HDR10" ELSE @]

\* lines 262-264, 285-287, 294-296
MarkDolbyVision(hdr_info) ==
    [hdr_info EXCEPT !.is_dv = TRUE, !.is_hdr = TRUE, !.format = "Dolby Vision"]

(* lines 234-238 *)
HdrEnter ==
    /\ call.fn = "_detect_hdr_dv"
    /\ call_ret = NotCalled
    /\ call_ret' = HdrState([is_hdr |-> FALSE, is_dv |-> FALSE, format |-> "SDR",
                             max_luminance |-> "unset"], "color_transfer", 0)
    /\ UNCHANGED <<call, pipelineVars>>

(* lines 241-244 *)
HdrColorTransfer ==
    /\ HdrAt("color_transfer")
    /\ LET color_transfer == Lower(call.arg.color_transfer)
           hit == \E x \in {"smpte2084", "arib-std-b67", "bt2020-10"} :
                        Contains(color_transfer, x)
       IN  call_ret' =
             HdrState(IF hit
                      THEN [call_ret.value EXCEPT !.is_hdr = TRUE, !.format = "HDR10"]
                      ELSE call_ret.value,
                      "hlg", 0)
    /\ UNCHANGED <<call, pipelineVars>>

(* lines 247-248 *)
HdrHlg ==
    /\ HdrAt("hlg")
    /\ call_ret' =
         HdrState(IF Contains(Lower(call.arg.color_transfer), "arib-std-b67")
                  THEN [call_ret.value EXCEPT !.format = "HLG"]
                  ELSE call_ret.value,
                  "color_primaries", 0)
    /\ UNCHANGED <<call, pipelineVars>>

(* lines 251-255 *)
HdrColorPrimaries ==
    /\ HdrAt("color_primaries")
    /\ call_ret' =
         HdrState(IF Contains(Lower(call.arg.color_primaries), "bt2020")
                  THEN MarkHdr10(call_ret.value)
                  ELSE call_ret.value,
                  "dolby_vision", 0)
    /\ UNCHANGED <<call, pipelineVars>>

(* lines 258-264 *)
HdrDolbyVision ==
    /\ HdrAt("dolby_vision")
    /\ call_ret' =
         HdrState(IF \/ Contains(Lower(call.arg.codec_name), "dovi")
                     \/ Contains(Lower(call.arg.profile), "dolby")
                  THEN MarkDolbyVision(call_ret.value)
                  ELSE call_ret.value,
                  "side_data", 1)
    /\ UNCHANGED <<call, pipelineVars>>

(* lines 267-287: one pass of the loop over side_data_list.  int() of a       *)
(* max_luminance that is not an integer literal raises ValueError, which      *)
(* nothing in the function catches.                                           *)
HdrSideData ==
    /\ HdrAt("side_data")
    /\ IF call_ret.i > Len(call.arg.side_data_list)
       THEN call_ret' = HdrState(call_ret.value, "tags", 1)
       ELSE LET data == call.arg.side_data_list[call_ret.i]
                side_type == Lower(data.type)
                mastering == Contains(side_type, "mastering display")
                h1 == IF mastering THEN MarkHdr10(call_ret.value)
                      ELSE call_ret.value
                h2 == IF mastering /\ data.luminance = "int"
                      THEN [h1 EXCEPT !.max_luminance = "set"] ELSE h1
                h3 == IF Contains(side_type, "content light level")
                      THEN [h2 EXCEPT !.is_hdr = TRUE] ELSE h2
                h4 == IF \/ Contains(side_type, "dovi")
                         \/ Contains(side_type, "dolby")
                      THEN MarkDolbyVision(h3) ELSE h3
            IN  IF mastering /\ data.luminance = "rational"
                THEN call_ret' = [done |-> TRUE, raised |-> TRUE, value |-> h1,
                                  at |-> "side_data", i |-> call_ret.i]
                ELSE call_ret' = HdrState(h4, "side_data", call_ret.i + 1)
    /\ UNCHANGED <<call, pipelineVars>>

(* lines 290-300: one pass of the loop over the format tags *)
HdrTags ==
    /\ HdrAt("tags")
    /\ IF call_ret.i > Len(call.arg.tags)
       THEN call_ret' = HdrState(call_ret.value, "return", 0)
       ELSE LET value_lower == Lower(call.arg.tags[call_ret.i])
            IN  call_ret' =
                  HdrState(IF \/ Contains(value_lower, "dolby")
                              \/ Contains(value_lower, "dovi")
                           THEN MarkDolbyVision(call_ret.value)
                           ELSE IF Contains(value_lower, "hdr")
                           THEN MarkHdr10(call_ret.value)
                           ELSE call_ret.value,
                           "tags", call_ret.i + 1)
    /\ UNCHANGED <<call, pipelineVars>>

(* line 302 *)
HdrReturn ==
    /\ HdrAt("return")
    /\ call_ret' = [done |-> TRUE, raised |-> FALSE, value |-> call_ret.value,
                    at |-> "return", i |-> 0]
    /\ UNCHANGED <<call, pipelineVars>>

-----------------------------------------------------------------------------
(* convert_mkv_to_mp4.py, verify_file_integrity(file_path, stage)             *)

\* what ffprobe can print on stdout: nothing, text that is not JSON, and JSON
\* objects with or without the keys the verifier looks for
Stdouts == {"", "moov atom not found", "{}", "{streams:[v]}",
            "{format:{},streams:[]}", "{format:{},streams:[v]}"}

\* what ffprobe can print on stderr
Stderrs == {"", "\n", "Invalid data found when processing input\n"}

\* json.loads: parsed is FALSE when JSONDecodeError is raised
JsonLoads(text) ==
    CASE text = "{}" ->
           [parsed |-> TRUE, format |-> FALSE, streams |-> FALSE, n |-> 0]
      [] text = "{streams:[v]}" ->
           [parsed |-> TRUE, format |-> FALSE, streams |-> TRUE, n |-> 1]
      [] text = "{format:{},streams:[]}" ->
           [parsed |-> TRUE, format |-> TRUE, streams |-> TRUE, n |-> 0]
      [] text = "{format:{},streams:[v]}" ->
           [parsed |-> TRUE, format |-> TRUE, streams |-> TRUE, n |-> 1]
      [] OTHER ->
           [parsed |-> FALSE, format |-> FALSE, streams |-> FALSE, n |-> 0]

\* str.strip()
Strip(text) ==
    CASE text = "\n" -> ""
      [] text = "Invalid data found when processing input\n" ->
           "Invalid data found when processing input"
      [] OTHER -> text

\* the tuple (is_valid, error_message); none: error_message is None
VerifyResult(is_valid, none, error_message) ==
    [is_valid |-> is_valid, none |-> none, error_message |-> error_message]

\* raises: what subprocess.run does instead of returning ("no" when it
\* returns), message: str() of the exception it raised
VerifierCalls ==
    {Call("verify_file_integrity",
          [raises |-> r.raises, message |-> r.message, returncode |-> rc,
           stdout |-> out, stderr |-> err, tracker |-> t]) :
        r \in {[raises |-> "no", message |-> ""],
               [raises |-> "TimeoutExpired", message |-> "timed out after 30 seconds"],
               [raises |-> "Exception", message |-> "No such file or directory: 'ffprobe'"],
               [raises |-> "Exception", message |-> ""]},
        rc \in {0, 1},
        out \in Stdouts,
        err \in Stderrs,
        t \in {"absent", "ok", "raising"}}

\* line 126: result.stderr.strip() if result.stderr else "Unknown error"
ErrorMessage(stderr) == IF stderr # "" THEN Strip(stderr) ELSE "Unknown error"

\* line 112
StructureValid(data) == data.format /\ data.streams /\ data.n > 0

\* lines 88-151.  The tracker call of lines 131-142 is wrapped in its own
\* try/except and leaves the returned tuple as it is.
VerifyFileIntegrityResult(arg) ==
    IF arg.raises = "TimeoutExpired"
    THEN VerifyResult(FALSE, FALSE, "Verification timeout")
    ELSE IF arg.raises = "Exception"
    THEN VerifyResult(FALSE, FALSE, arg.message)
    ELSE IF arg.returncode = 0 /\ arg.stdout # ""
    THEN LET data == JsonLoads(arg.stdout)
         IN  IF ~data.parsed
             THEN VerifyResult(FALSE, FALSE, "Could not parse file metadata")
             ELSE IF StructureValid(data)
             THEN VerifyResult(TRUE, TRUE, "")
             ELSE VerifyResult(FALSE, FALSE, "File structure is invalid")
    ELSE VerifyResult(FALSE, FALSE, ErrorMessage(arg.stderr))

VerifyFileIntegrity ==
    /\ call.fn = "verify_file_integrity"
    /\ call_ret = NotCalled
    /\ call_ret' = Returned(VerifyFileIntegrityResult(call.arg))
    /\ UNCHANGED <<call, pipelineVars>>

-----------------------------------------------------------------------------
(* webhook_server.py, jellyfin_playback()                                     *)

\* a key of the payload: present with a value, or missing
Key(value) == [present |-> TRUE, value |-> value]

\* a missing number, a missing string
Missing == [present |-> FALSE, value |-> 0]

MissingText == [present |-> FALSE, value |-> ""]

\* dict.get(key, default)
Get(key, default) == IF key.present THEN key.value ELSE default

EventTypes == {"PlaybackStop", "item.markplayed", "PlaybackStart", "PlaybackProgress"}

PositionTicks == {Missing, Key(0), Key(89), Key(90), Key(100)}

RunTimeTicks == {Missing, Key(-100), Key(0), Key(100)}

\* json: the request body is a JSON object (request.json is None otherwise);
\* script: what subprocess.run of smart_download.py does
PlaybackCalls ==
    {Call("jellyfin_playback",
          [json |-> j, Event |-> e, PositionTicks |-> p, RunTimeTicks |-> r,
           script |-> sc]) :
        j \in BOOLEAN,
        e \in {MissingText} \cup {Key(t) : t \in EventTypes},
        p \in PositionTicks,
        r \in RunTimeTicks,
        sc \in {"exit 0", "exit 1", "TimeoutExpired"}}

\* the response and whether the payload was given to smart_download.py
Response(status, code, forwarded) ==
    [status |-> status, code |-> code, forwarded |-> forwarded]

\* lines 53-57: (position_ticks / runtime_ticks) * 100 < 90, computed only
\* when runtime_ticks > 0
Incomplete(position_ticks, runtime_ticks) ==
    /\ runtime_ticks > 0
    /\ position_ticks * 100 < 90 * runtime_ticks

\* lines 38-77
JellyfinPlaybackResponse(arg) ==
    LET event_type     == Get(arg.Event, "")
        position_ticks == Get(arg.PositionTicks, 0)
        runtime_ticks  == Get(arg.RunTimeTicks, 1)
    IN  IF ~arg.json
        THEN Response("error", 500, FALSE)
        ELSE IF event_type \notin {"PlaybackStop", "item.markplayed"}
        THEN Response("ignored", 200, FALSE)
        ELSE IF Incomplete(position_ticks, runtime_ticks)
        THEN Response("ignored", 200, FALSE)
        ELSE IF arg.script = "exit 0"
        THEN Response("success", 200, TRUE)
        ELSE Response("error", 500, TRUE)

JellyfinPlayback ==
    /\ call.fn = "jellyfin_playback"
    /\ call_ret = NotCalled
    /\ call_ret' = Returned(JellyfinPlaybackResponse(call.arg))
    /\ UNCHANGED <<call, pipelineVars>>

-----------------------------------------------------------------------------
(* convert_mkv_to_mp4.py, get_radarr_config()                                 *)

MissingFlag == [present |-> FALSE, value |-> FALSE]

\* the environment: RADARR_URL and RADARR_API_KEY, set or not
Environments ==
    [RADARR_URL : {MissingText, Key("http://env:7878")},
     RADARR_API_KEY : {MissingText, Key(""), Key("env-key")}]

\* radarr_config.json next to the script: whether it exists, whether
\* json.load reads it, and the keys it gives
ConfigFiles ==
    [exists : BOOLEAN, readable : BOOLEAN,
     url : {MissingText, Key("http://file:7878")},
     api_key : {MissingText, Key(""), Key("file-key")},
     enabled : {MissingFlag, Key(TRUE)}]

ConfigCalls ==
    {Call("get_radarr_config", [env |-> e, file |-> f]) :
        e \in Environments,
        f \in {g \in ConfigFiles :
                 (~g.exists \/ ~g.readable)
                    => /\ g.url = MissingText
                       /\ g.api_key = MissingText
                       /\ g.enabled = MissingFlag
                       /\ (~g.exists => ~g.readable)}}

\* dict.update with the keys given first: a key the dict already has keeps
\* its value
Update_KeepExisting(config, file_config) == config

\* lines 479-485, config.update(file_config): every key the file gives
\* replaces the value the dict has
Update(config, file_config) ==
    [url     |-> Get(file_config.url, config.url),
     api_key |-> Get(file_config.api_key, config.api_key),
     enabled |-> Get(file_config.enabled, config.enabled)]

\* lines 469-488
GetRadarrConfigResult(arg) ==
    LET config == [url     |-> Get(arg.env.RADARR_URL, "http://localhost:7878"),
                   api_key |-> Get(arg.env.RADARR_API_KEY, ""),
                   enabled |-> FALSE]
        read   == IF arg.file.exists /\ arg.file.readable
                  THEN Update(config, arg.file)
                  ELSE config
    IN  [read EXCEPT !.enabled = (read.api_key # "")]

GetRadarrConfig ==
    /\ call.fn = "get_radarr_config"
    /\ call_ret = NotCalled
    /\ call_ret' = Returned(GetRadarrConfigResult(call.arg))
    /\ UNCHANGED <<call, pipelineVars>>

-----------------------------------------------------------------------------
(* corruption_tracker.py, CorruptionTracker: the fact table and its rollups   *)

\* how many log calls one session makes
MaxInserts == 3

\* what extract_metadata gives for a file that ffprobe can read:
\* _parse_release_info gives group and source from the name, the video
\* stream gives the codec, _detect_hdr_dv the format
Metadata(release_group, video_codec, hdr_format, source_type) ==
    [release_group |-> release_group, video_codec |-> video_codec,
     hdr_format |-> hdr_format, source_type |-> source_type]

\* the files of the library, by name
LibraryFiles ==
    {"Movie.2024.2160p.REMUX-FraMeSToR.mkv", "Other.2023.1080p.REMUX-FraMeSToR.mkv",
     "Movie.2024.1080p.WEB-DL-NTb.mkv"}

ExtractMetadata(file) ==
    CASE file = "Movie.2024.2160p.REMUX-FraMeSToR.mkv" ->
           Metadata("FraMeSToR", "hevc", "HDR10", "REMUX")
      [] file = "Other.2023.1080p.REMUX-FraMeSToR.mkv" ->
           Metadata("FraMeSToR", "h264", "SDR", "REMUX")
      [] file = "Movie.2024.1080p.WEB-DL-NTb.mkv" ->
           Metadata("NTb", "h264", "SDR", "WEB-DL")

\* lines 386-393 and the defaults of lines 415, 426, 432, 433: what is logged
\* when extract_metadata returns {}
MinimalMetadata == Metadata("Unknown", "unknown", "SDR", "Unknown")

ReleaseGroups == {"FraMeSToR", "NTb", "Unknown"}

FormatKeys ==
    {<<m.video_codec, m.hdr_format, m.source_type>> :
        m \in {ExtractMetadata(f) : f \in LibraryFiles} \cup {MinimalMetadata}}

\* one call of the tracker; probed: extract_metadata could read the file
LogCall(fn, file, probed) == [fn |-> fn, file |-> file, probed |-> probed]

LogCalls ==
    {LogCall(fn, file, probed) :
        fn \in {"log_corruption_event", "log_success_event"},
        file \in LibraryFiles, probed \in BOOLEAN}

TrackerCalls ==
    {Call("CorruptionTracker", [calls |-> calls]) :
        calls \in UNION {[1..n -> LogCalls] : n \in 0..MaxInserts}}

\* corruption_rate: NULL, or the REAL num / den * 100
Null == [null |-> TRUE, num |-> 0, den |-> 1]

Rate(num, den) == [null |-> FALSE, num |-> num, den |-> den]

\* a row of publisher_stats or format_stats (format_stats has no
\* success_files column: success stays 0 there); present: the row exists
StatsRow(total_files, corrupted_files, success_files, corruption_rate) ==
    [present |-> TRUE, total_files |-> total_files,
     corrupted_files |-> corrupted_files, success_files |-> success_files,
     corruption_rate |-> corruption_rate]

NoRow ==
    [present |-> FALSE, total_files |-> 0, corrupted_files |-> 0,
     success_files |-> 0, corruption_rate |-> Null]

\* lines 31-115: the tables as _init_database creates them
EmptyDb ==
    [events |-> <<>>,
     publisher_stats |-> [g \in ReleaseGroups |-> NoRow],
     format_stats |-> [k \in FormatKeys |-> NoRow]]

\* a row of corruption_events
EventRow(m, status) ==
    [release_group |-> m.release_group, video_codec |-> m.video_codec,
     hdr_format |-> m.hdr_format, source_type |-> m.source_type,
     status |-> status]

\* the upsert with total_files left as it is on conflict
Upsert_NoTotal(row, corrupted_val, success_val) ==
    IF ~row.present
    THEN StatsRow(1, corrupted_val, success_val, Null)
    ELSE StatsRow(row.total_files, row.corrupted_files + corrupted_val,
                  row.success_files + success_val,
                  Rate(row.corrupted_files, row.total_files))

\* lines 537-546 and 550-558: INSERT ... ON CONFLICT DO UPDATE.  The insert
\* names no corruption_rate, which has no default: NULL.  In DO UPDATE SET
\* the column names on the right stand for the values of the row before the
\* update.
Upsert(row, corrupted_val, success_val) ==
    IF ~row.present
    THEN StatsRow(1, corrupted_val, success_val, Null)
    ELSE StatsRow(row.total_files + 1, row.corrupted_files + corrupted_val,
                  row.success_files + success_val,
                  Rate(row.corrupted_files, row.total_files))

\* lines 533-546
UpdatePublisherStats(stats, release_group, is_corrupted) ==
    [stats EXCEPT ![release_group] =
        Upsert(@, IF is_corrupted THEN 1 ELSE 0, IF is_corrupted THEN 0 ELSE 1)]

\* lines 548-558
UpdateFormatStats(stats, video_codec, hdr_format, source, is_corrupted) ==
    [stats EXCEPT ![<<video_codec, hdr_format, source>>] =
        Upsert(@, IF is_corrupted THEN 1 ELSE 0, 0)]

\* the insert and the two rollup updates, committed together
Logged(db, m, status, is_corrupted) ==
    [events |-> Append(db.events, EventRow(m, status)),
     publisher_stats |->
        UpdatePublisherStats(db.publisher_stats, m.release_group, is_corrupted),
     format_stats |->
        UpdateFormatStats(db.format_stats, m.video_codec, m.hdr_format,
                          m.source_type, is_corrupted)]

\* the database, the position in the list of calls, and the last call made
Session(db, i, last) == [done |-> FALSE, value |-> db, i |-> i, last |-> last]

NoLogCall == LogCall("", "", FALSE)

InSession ==
    /\ call.fn = "CorruptionTracker"
    /\ call_ret # NotCalled
    /\ ~call_ret.done

\* the call the session is to make next
NextLogCall == call.arg.calls[call_ret.i]

(* lines 25-31: __init__ *)
TrackerInit ==
    /\ call.fn = "CorruptionTracker"
    /\ call_ret = NotCalled
    /\ call_ret' = Session(EmptyDb, 1, NoLogCall)
    /\ UNCHANGED <<call, pipelineVars>>

(* lines 357-459 *)
LogCorruptionEvent ==
    /\ InSession
    /\ call_ret.i <= Len(call.arg.calls)
    /\ NextLogCall.fn = "log_corruption_event"
    /\ LET metadata == IF NextLogCall.probed
                       THEN ExtractMetadata(NextLogCall.file)
                       ELSE MinimalMetadata
       IN  call_ret' = Session(Logged(call_ret.value, metadata, "corrupted", TRUE),
                               call_ret.i + 1, NextLogCall)
    /\ UNCHANGED <<call, pipelineVars>>

(* lines 461-531: nothing is logged when extract_metadata returns {} *)
LogSuccessEvent ==
    /\ InSession
    /\ call_ret.i <= Len(call.arg.calls)
    /\ NextLogCall.fn = "log_success_event"
    /\ call_ret' =
         Session(IF NextLogCall.probed
                 THEN Logged(call_ret.value, ExtractMetadata(NextLogCall.file),
                             "success", FALSE)
                 ELSE call_ret.value,
                 call_ret.i + 1, NextLogCall)
    /\ UNCHANGED <<call, pipelineVars>>

-----------------------------------------------------------------------------
CallInit ==
    /\ Idle
    /\ call \in RecoverCalls \cup HdrCalls \cup VerifierCalls
               \cup PlaybackCalls \cup ConfigCalls \cup TrackerCalls
    /\ call_ret = NotCalled

CallNext ==
    \/ Recover
    \/ HdrEnter
    \/ HdrColorTransfer
    \/ HdrHlg
    \/ HdrColorPrimaries
    \/ HdrDolbyVision
    \/ HdrSideData
    \/ HdrTags
    \/ HdrReturn
    \/ VerifyFileIntegrity
    \/ JellyfinPlayback
    \/ GetRadarrConfig
    \/ TrackerInit
    \/ LogCorruptionEvent
    \/ LogSuccessEvent

CallSpec == CallInit /\ [][CallNext]_vars

-----------------------------------------------------------------------------
(* Properties *)

Ended == pc = "exited"

\* the positions of the events of this run that equal e
Positions(e) == {i \in 1..Len(events) : events[i] = e}

Happened(e) == Positions(e) # {}

TranscodeInvoked == \E i \in 1..Len(events) : events[i].op = "transcode"

VerifyCalls == SelectSeq(events, LAMBDA e : e.op = "verify")

\* verify(tmp) passed, then the move to the final path succeeded, then
\* verify(out) passed, in a sequence of events ev
CheckedTempThenFinal(ev) ==
    \E i, m, j \in 1..Len(ev) :
        /\ i < m /\ m < j
        /\ ev[i] = Event("verify", "tmp", TRUE)
        /\ ev[m] = Event("move", "out", TRUE)
        /\ ev[j] = Event("verify", "out", TRUE)

(* C1: the original is deleted only if, at that moment, a file exists at the  *)
(* final output path, it passed the integrity check while it was the temp    *)
(* artifact, and a second check against the final-path copy, after the        *)
(* promotion, passed as well (and the file is structurally sound).            *)
C1_DeleteOnlyAfterBothChecks ==
    [][ (fs["orig"].exists /\ ~fs'["orig"].exists)
            => /\ fs'["out"].exists
               /\ fs'["out"].ok
               /\ fs'["out"].by = run
               /\ CheckedTempThenFinal(events') ]_vars

C1_Witness ==
    /\ ~fs["orig"].exists
    /\ atStart["orig"].exists
    /\ Happened(Event("remove", "orig", TRUE))

PrePromotionFailures ==
    {"InputCorrupt", "UnreadableStreams", "ConversionProcessFailed",
     "OutputTooSmall", "OutputCorrupt"}

(* C2: if a run fails before the promotion (input verification, probing,     *)
(* ffmpeg's exit status, a missing temp artifact, the size gate, the temp     *)
(* verification), then at the end of the run the original is unchanged, no    *)
(* file is at the final output path and no temp artifact remains.             *)
C2_PrePromotionFailureLeavesNothing ==
    (Ended /\ terminal \in PrePromotionFailures)
        => /\ fs["orig"] = atStart["orig"]
           /\ ~fs["out"].exists
           /\ ~fs["tmp"].exists

(* C3: a run that starts with the original present and ends on a failure     *)
(* path (process_file returns False, or the delete was refused) still has     *)
(* the original, unchanged, at its path when it ends.                         *)
C3_OriginalSurvivesFailure ==
    (Ended /\ atStart["orig"].exists
           /\ (retval = "false" \/ terminal = "ManualReviewRequired"))
        => /\ fs["orig"].exists
           /\ fs["orig"] = atStart["orig"]

C3_Witness ==
    /\ Ended
    /\ terminal = "PromotionFailed"
    /\ retval = "false"
    /\ fs["orig"].exists

(* C4: when a run reaches Done, the original no longer exists at its path     *)
(* and the file at the final output path passes the Integrity Verifier: it    *)
(* is structurally sound and the last check of the run, on it, passed.        *)
C4_DoneMeansRemovedAndVerified ==
    terminal = "Done"
        => /\ ~fs["orig"].exists
           /\ fs["out"].exists
           /\ fs["out"].ok
           /\ Len(VerifyCalls) > 0
           /\ VerifyCalls[Len(VerifyCalls)] = Event("verify", "out", TRUE)

C4_Witness ==
    /\ Ended
    /\ terminal = "Done"
    /\ exit_code = 0

(* C5: a run on a path whose output already exists returns success without   *)
(* invoking ffmpeg; in particular a second run on the same input path, after  *)
(* a first run that produced the output, does.                                *)
C5_SecondRunSucceeds ==
    (Ended /\ terminal # "Interrupted"
           /\ atStart["out"].exists /\ atStart["out"].by \in 1..(run - 1))
        => /\ exit_code = 0
           /\ retval = "true"
           /\ ~TranscodeInvoked

(* C6: ffmpeg is invoked only after the input passed the Integrity Verifier, *)
(* the Prober returned a MediaFile and the Planner said feasible, in that     *)
(* order; if one of the three fails, ffmpeg is not invoked in that run.       *)
C6_TranscodeOnlyAfterThreeGates ==
    /\ \A t \in 1..Len(events) :
        events[t].op = "transcode"
            => /\ \E i, j, k \in 1..(t - 1) :
                    /\ i < j /\ j < k
                    /\ events[i] = Event("verify", "orig", TRUE)
                    /\ events[j] = Event("probe", "orig", TRUE)
                    /\ events[k] = Event("plan", "orig", TRUE)
               /\ atStart["orig"].ok
               /\ atStart["orig"].video
               /\ codec \in {"h264", "hevc", "h265", "mpeg4", "mpeg2video"}
    /\ (\/ Happened(Event("verify", "orig", FALSE))
        \/ Happened(Event("probe", "orig", FALSE))
        \/ Happened(Event("plan", "orig", FALSE)))
            => ~TranscodeInvoked

C6_Witness ==
    /\ TranscodeInvoked
    /\ pc = "ffmpeg"

(* C7: the temp artifact is renamed to the final output path only after it    *)
(* passed the size-ratio gate and then the Integrity Verifier, so a file a    *)
(* run creates at the final output path passed both before it appeared.       *)
C7_PromoteOnlyAfterSizeAndVerify ==
    /\ \A m \in Positions(Event("move", "out", TRUE)) :
        /\ m >= 3
        /\ events[m - 2] = Event("size", "tmp", TRUE)
        /\ events[m - 1] = Event("verify", "tmp", TRUE)
    /\ (fs["out"].exists /\ fs["out"].by = run)
            => /\ Happened(Event("move", "out", TRUE))
               /\ fs["out"].ok
               /\ fs["out"].size * 100 >= 90 * info.size

C7_Witness ==
    /\ pc = "convert_return"
    /\ success
    /\ fs["out"].exists
    /\ fs["out"].by = run

(* C8: in a run that ends with the original removed, the Integrity Verifier  *)
(* was invoked exactly three times: on the source, on the temp artifact, on   *)
(* the promoted final-path file, in this order.                               *)
C8_ThreeVerifications ==
    (deleted /\ ~fs["orig"].exists)
        => VerifyCalls = << Event("verify", "orig", TRUE),
                            Event("verify", "tmp", TRUE),
                            Event("verify", "out", TRUE) >>

C8_Witness ==
    /\ deleted
    /\ ~fs["orig"].exists
    /\ pc = "log_success"

(* C9: with ratio = output_bytes / input_bytes, an output at exactly 0.90     *)
(* times the input passes the gate, 0.899 fails with OutputTooSmall, 1.05     *)
(* passes without a warning, 1.051 passes with a warning; the gate rejects    *)
(* exactly the ratios below 0.90 and warns exactly above 1.05, and rejects    *)
(* no ratio above 1.05.                                                       *)
C9_SizeRatioGate ==
    (gate # "none" /\ info.size > 0)
        => /\ gate = "too_small" <=> output_size * 100 < 90 * info.size
           /\ gate = "warn" <=> output_size * 100 > 105 * info.size
           /\ gate = "too_small" => (pc # "size_check" /\ terminal = "OutputTooSmall")
           /\ gate \in {"ok", "warn"} => terminal # "OutputTooSmall"
           /\ (info.size = 1000 /\ output_size = 900) => gate = "ok"
           /\ (info.size = 1000 /\ output_size = 899) => gate = "too_small"
           /\ (info.size = 1000 /\ output_size = 1050) => gate = "ok"
           /\ (info.size = 1000 /\ output_size = 1051) => gate = "warn"

C9_Witness ==
    /\ gate = "ok"
    /\ info.size = 1000
    /\ output_size = 900
    /\ pc = "verify_output"

(* C10: when ffmpeg exits successfully but the size ratio is below 0.90, the  *)
(* temp artifact is deleted, the run fails, the Recovery Orchestrator is      *)
(* invoked, and the original is still on disk after the run.                  *)
C10_TooSmallFailsAndRecovers ==
    (gate # "none" /\ info.size > 0 /\ output_size * 100 < 90 * info.size)
        => /\ ~fs["tmp"].exists
           /\ ~fs["out"].exists
           /\ ~success
           /\ fs["orig"] = atStart["orig"] /\ fs["orig"].exists
           /\ pc \in {"main_exit", "exited"}
                => /\ retval = "false"
                   /\ Len(recoveries) = 1
                   /\ recoveries[1].reason = "Conversion process failed"
           /\ Ended => exit_code = 1

C10_Witness ==
    /\ Ended
    /\ gate = "too_small"
    /\ output_size = 800
    /\ info.size = 1000
    /\ Len(recoveries) = 1

\* the rows this run has appended to the ledger
RowsOfRun == {i \in 1..Len(ledger) : ledger[i].run = run}

(* C11: when the planner finds the codec infeasible (av1, or a codec it does  *)
(* not recognise), the run ends Skipped(Infeasible): the transcode is not     *)
(* invoked, no failure event is logged, the Recovery Orchestrator is not      *)
(* invoked, and the original is untouched.                                    *)
C11_InfeasibleSkips ==
    (Happened(Event("probe", "orig", TRUE)) /\ pc # "estimate"
     /\ codec \in {"av1", "vp9"})
        => /\ terminal = "Infeasible"
           /\ pc \in {"finally", "main_exit", "exited"}
           /\ ~TranscodeInvoked
           /\ RowsOfRun = {}
           /\ ~should_blocklist
           /\ recoveries = <<>>
           /\ fs = atStart
           /\ fs["orig"].exists

C11_Witness ==
    /\ Ended
    /\ terminal = "Infeasible"
    /\ codec = "av1"
    /\ tracker = "working"
    /\ radarr_enabled

(* C12: the planner's answer depends on the codec and the duration alone: it  *)
(* is feasible exactly for h264, hevc, h265, mpeg4 and mpeg2video, and its    *)
(* estimate in minutes is the duration in hours times 3 for h264, hevc and    *)
(* h265, times 120 for mpeg4, times 90 for mpeg2video, times 1800 for av1,    *)
(* and is 0 for a codec it does not recognise.  (est_minutes counts 1/3600    *)
(* minute, so hours times rate reads seconds times rate.)                     *)
C12_PlannerTable ==
    (\E i \in 1..Len(events) : events[i].op = "plan")
        => /\ Happened(Event("plan", "orig", TRUE))
                <=> codec \in {"h264", "hevc", "h265", "mpeg4", "mpeg2video"}
           /\ codec \in {"h264", "hevc", "h265"} => est_minutes = duration * 3
           /\ codec = "mpeg4" => est_minutes = duration * 120
           /\ codec = "mpeg2video" => est_minutes = duration * 90
           /\ codec = "av1" => est_minutes = duration * 1800
           /\ codec \notin {"h264", "hevc", "h265", "mpeg4", "mpeg2video", "av1"}
                => est_minutes = 0

C12_Witness ==
    /\ codec = "mpeg2video"
    /\ duration = 5400
    /\ est_minutes = 486000
    /\ pc = "convert"

\* process_file is past safe_delete_original (line 894)
PastSafeDelete ==
    /\ Happened(Event("move", "out", TRUE))
    /\ pc \in {"log_success", "finally", "main_exit", "exited"}

(* C13: if, after the promotion, the probe or the verification of the file at *)
(* the final path fails, or the delete itself fails, then the original and    *)
(* the converted file are both on disk and the run reports manual review      *)
(* (the warning of lines 896-900, given exactly when deleted is False): that  *)
(* outcome is neither Done (the original was not deleted) nor a failure       *)
(* (process_file does not return False), and the Recovery Orchestrator is     *)
(* not invoked.                                                               *)
C13_ManualReviewKeepsBoth ==
    (/\ PastSafeDelete
     /\ \/ Happened(Event("probe", "out", FALSE))
        \/ Happened(Event("verify", "out", FALSE))
        \/ Happened(Event("remove", "orig", FALSE)))
        => /\ fs["orig"].exists /\ fs["orig"] = atStart["orig"]
           /\ fs["out"].exists
           /\ ~deleted
           /\ terminal = "ManualReviewRequired"
           /\ retval # "false"
           /\ ~should_blocklist
           /\ recoveries = <<>>

C13_Witness ==
    /\ Ended
    /\ Happened(Event("verify", "out", FALSE))
    /\ terminal = "ManualReviewRequired"
    /\ fs["orig"].exists
    /\ fs["out"].exists

\* the outcomes in which a step of the pipeline failed
FailedOutcomes ==
    {"InputCorrupt", "UnreadableStreams", "ConversionProcessFailed",
     "OutputTooSmall", "OutputCorrupt", "PromotionFailed", "UnexpectedError"}

(* C14, as stated: the exit code is 0 on success (Done), 1 on every failure   *)
(* and on every skip, Skipped(Infeasible) and Skipped(ManualReviewRequired)   *)
(* included, and 130 on interrupt.                                            *)
C14_ExitCodesAsStated ==
    Ended
        => /\ terminal = "Done" => exit_code = 0
           /\ terminal \in FailedOutcomes \cup {"NotFound"} => exit_code = 1
           /\ terminal \in {"Infeasible", "ManualReviewRequired"} => exit_code = 1
           /\ terminal = "Interrupted" => exit_code = 130

(* C14, amended: the exit code is 0 exactly when process_file returned True,  *)
(* which it does on Done, on Skipped(ManualReviewRequired), for a non-MKV     *)
(* input and for an already existing output; it is 130 exactly on interrupt;  *)
(* and it is 1 on every failure, on Skipped(Infeasible) and for a missing     *)
(* input file.                                                                *)
C14_ExitCodes ==
    Ended
        => /\ exit_code \in {0, 1, 130}
           /\ exit_code = 0 <=> terminal \in {"Done", "ManualReviewRequired",
                                              "NotMkv", "AlreadyExists"}
           /\ exit_code = 130 <=> terminal = "Interrupted"
           /\ exit_code = 1 <=> terminal \in FailedOutcomes
                                             \cup {"Infeasible", "NotFound"}

C14_Witness ==
    /\ Ended
    /\ terminal = "ManualReviewRequired"
    /\ exit_code = 0
    /\ fs["orig"].exists

\* the success rows among the rows of this run
SuccessRowsOfRun == {i \in RowsOfRun : ledger[i].status = "success"}

(* C15: with a working ledger, a run that ends in any outcome other than      *)
(* Skipped(Infeasible) has appended an event to the ledger (InputCorrupt by   *)
(* a verifier timeout or by malformed metadata, UnreadableStreams and         *)
(* ManualReviewRequired included), and it has appended a success event        *)
(* exactly when it ended Done.                                                *)
C15_EveryOutcomeLogged ==
    (Ended /\ tracker = "working")
        => /\ terminal \in FailedOutcomes \cup {"ManualReviewRequired", "Done"}
                => RowsOfRun # {}
           /\ SuccessRowsOfRun # {} <=> terminal = "Done"

(* C16: an event is created once per terminal outcome: no run appends more    *)
(* than one row to the ledger; a run that fails because the temp artifact     *)
(* fails the Integrity Verifier appends one row, not two.                     *)
C16_AtMostOneRowPerRun ==
    /\ Cardinality(RowsOfRun) <= 1
    /\ (terminal = "OutputCorrupt" /\ tracker = "working" /\ Ended)
            => Cardinality(RowsOfRun) = 1

(* C17: the Recovery Orchestrator is invoked in a run exactly when the run    *)
(* ends in a failure: for InputCorrupt, UnreadableStreams,                    *)
(* ConversionProcessFailed, OutputTooSmall, OutputCorrupt, PromotionFailed    *)
(* and an unexpected error, and never for Done, Skipped(Infeasible),          *)
(* Skipped(ManualReviewRequired), a missing input, a non-MKV input or an      *)
(* existing output; at most once per run, and only after the failing step.    *)
C17_RecoveryIffFailed ==
    /\ Len(recoveries) <= 1
    /\ recoveries # <<>>
        => /\ pc \in {"main_exit", "exited"}
           /\ terminal \in FailedOutcomes
           /\ retval = "false"
    /\ pc \in {"main_exit", "exited"}
        => /\ terminal \in FailedOutcomes \cup
                  {"Done", "Infeasible", "ManualReviewRequired", "NotFound",
                   "NotMkv", "AlreadyExists", "Interrupted"}
           /\ Len(recoveries) = 1 <=> terminal \in FailedOutcomes

C17_Witness ==
    /\ Ended
    /\ terminal = "PromotionFailed"
    /\ Len(recoveries) = 1

\* the call r of blocklist_release_in_radarr sent a request to the endpoint
Sent(r, endpoint) ==
    \E i \in 1..Len(r.requests) : r.requests[i].endpoint = endpoint

\* ... and got one of the answers
Answered(r, endpoint, answers) ==
    \E i \in 1..Len(r.requests) :
        r.requests[i].endpoint = endpoint /\ r.requests[i].outcome \in answers

\* the call r found the title in Radarr's catalog
FoundMovie(r) == Answered(r, "GET movie", {"found"})

(* C18: every call of blocklist_release_in_radarr with Radarr configured (and *)
(* the title in its catalog) sends a search request, whether the blocklist    *)
(* request succeeded, was rejected or was skipped, and also when the list of  *)
(* movie files or the history could not be fetched.                           *)
C18_SearchAlwaysIssued ==
    \A k \in 1..Len(recoveries) :
        (radarr_enabled /\ FoundMovie(recoveries[k]))
            => Sent(recoveries[k], "POST command")

(* C19: the steps of a recovery are isolated: once the title is found, an     *)
(* error status or a transport exception in the movie-file fetch, the history *)
(* fetch, the blocklist post or the search post does not keep the later steps *)
(* (blocklist, search, delete of the file record) from being attempted.       *)
C19_StepsIsolated ==
    \A k \in 1..Len(recoveries) :
        LET r == recoveries[k]
            failed == {"status", "exc"}
        IN  FoundMovie(r)
                => /\ Answered(r, "GET moviefile", failed)
                        => Sent(r, "GET history") /\ Sent(r, "POST command")
                   /\ Answered(r, "GET history", failed)
                        => Sent(r, "POST command") /\ Sent(r, "DELETE moviefile")
                   /\ Answered(r, "POST blocklist", failed)
                        => Sent(r, "POST command") /\ Sent(r, "DELETE moviefile")
                   /\ (Answered(r, "POST command", failed)
                       /\ Answered(r, "GET moviefile", {"match"}))
                        => Sent(r, "DELETE moviefile")

(* C20: blocklist_release_in_radarr returns True only if the blocklist        *)
(* request or the search request was answered without an error: when both     *)
(* fail, or neither is sent, it returns False.                                *)
C20_SuccessNeedsBlocklistOrSearch ==
    \A k \in 1..Len(recoveries) :
        recoveries[k].result
            => \/ Answered(recoveries[k], "POST blocklist", {"ok"})
               \/ Answered(recoveries[k], "POST command", {"ok"})

\* the positions of the requests of the call r to the endpoint
RequestsTo(r, endpoint) ==
    {i \in 1..Len(r.requests) : r.requests[i].endpoint = endpoint}

\* every delete request of the call r names a record that the movie-file list
\* the call had fetched gives the failed file's name, and follows the search
DeletesMatchedRecordAfterSearch(r) ==
    /\ Cardinality(RequestsTo(r, "DELETE moviefile")) <= 1
    /\ \A i \in RequestsTo(r, "DELETE moviefile") :
        /\ \E j \in RequestsTo(r, "GET moviefile") :
            /\ j < i
            /\ \E m \in 1..Len(r.requests[j].body) :
                /\ r.requests[j].body[m].name = "target"
                /\ r.requests[j].body[m].id = r.requests[i].id
        /\ \E j \in RequestsTo(r, "POST command") : j < i

\* the call of blocklist_release_in_radarr made on its own has returned
Recovering ==
    /\ call.fn = "blocklist_release_in_radarr"
    /\ call_ret.done
    /\ call.arg.enabled
    /\ call.arg.api.movie = "found"

(* C21: in every call of blocklist_release_in_radarr a delete request for a   *)
(* movie-file record is sent only if a record with the failed file's name was *)
(* identified, for that record only, and after the search request; the call   *)
(* deletes nothing from the local file system.                                *)
C21_DeleteOnlyMatchedRecord ==
    [][/\ pc = "finally" => fs' = fs
       /\ \A k \in 1..Len(recoveries') :
            DeletesMatchedRecordAfterSearch(recoveries'[k])]_vars

C21_Witness ==
    /\ Ended
    /\ Len(recoveries) = 1
    /\ Sent(recoveries[1], "DELETE moviefile")
    /\ Answered(recoveries[1], "POST blocklist", {"status"})
    /\ fs["orig"].exists

\* the 'grabbed' entries with a download id in the history Radarr holds
GrabbedWithId(history) ==
    {e \in 1..Len(history) :
        history[e].eventType = "grabbed" /\ history[e].has_id}

(* C22: whenever the title is in Radarr's catalog and its history holds a     *)
(* 'grabbed' event with a download id, the call sends a blocklist request     *)
(* built from the most recent such event (the first in the history, which is  *)
(* newest first) and carrying the failure reason, whether or not a movie-file *)
(* record matches the failed file.                                            *)
C22_BlocklistFromLatestGrab ==
    (/\ Recovering
     /\ call.arg.api.files.answer = "ok"
     /\ call.arg.api.history.answer = "ok"
     /\ GrabbedWithId(call.arg.api.history.body) # {})
        => \E i \in RequestsTo(call_ret.value, "POST blocklist") :
            LET grabs == GrabbedWithId(call.arg.api.history.body)
                req   == call_ret.value.requests[i]
            IN  /\ req.id \in grabs
                /\ \A e \in grabs : req.id <= e
                /\ req.reason = call.arg.reason

\* _detect_hdr_dv is running or has ended
InHdr == call.fn = "_detect_hdr_dv" /\ call_ret # NotCalled

(* C23: the HDR classification is monotonic within one probe: whatever the    *)
(* transfer, primaries, codec, profile, side data and container tags, once    *)
(* the format is Dolby Vision no later signal changes it to HDR10, HLG or     *)
(* SDR, and once is_hdr is true no later signal sets it false.                *)
C23_HdrMonotonic ==
    [][(InHdr /\ call_ret' # call_ret)
        => /\ call_ret.value.format = "Dolby Vision"
                => call_ret'.value.format = "Dolby Vision"
           /\ call_ret.value.is_dv => call_ret'.value.is_dv
           /\ call_ret.value.is_hdr => call_ret'.value.is_hdr]_vars

C23_Witness ==
    /\ InHdr
    /\ call_ret.done /\ ~call_ret.raised
    /\ call_ret.value.format = "Dolby Vision"
    /\ call.arg.profile = "Dolby Vision"
    /\ call.arg.color_transfer = "arib-std-b67"
    /\ Len(call.arg.side_data_list) = 2
    /\ call.arg.side_data_list[1].type = "Mastering display metadata"
    /\ call.arg.tags = <<"Dolby Vision", "HDR10">>

\* a Dolby Vision signal among the inputs, as the function looks for them
DolbySignalled(arg) ==
    \/ Contains(Lower(arg.codec_name), "dovi")
    \/ Contains(Lower(arg.profile), "dolby")
    \/ \E k \in 1..Len(arg.side_data_list) :
          \/ Contains(Lower(arg.side_data_list[k].type), "dovi")
          \/ Contains(Lower(arg.side_data_list[k].type), "dolby")
    \/ \E k \in 1..Len(arg.tags) :
          \/ Contains(Lower(arg.tags[k]), "dolby")
          \/ Contains(Lower(arg.tags[k]), "dovi")

(* C24: for every combination of signals, when Dolby Vision is signalled by   *)
(* the codec name, the profile, a side-data type or a container tag, the      *)
(* probe ends with a result that has is_dv true, is_hdr true and format       *)
(* Dolby Vision, whatever the other signals are; and is_dv true always comes  *)
(* with is_hdr true and format Dolby Vision.                                  *)
C24_DolbyVisionWins ==
    (InHdr /\ call_ret.done)
      => /\ DolbySignalled(call.arg)
              => /\ ~call_ret.raised
                 /\ call_ret.value.is_dv
                 /\ call_ret.value.is_hdr
                 /\ call_ret.value.format = "Dolby Vision"
         /\ call_ret.value.is_dv
              => /\ call_ret.value.is_hdr
                 /\ call_ret.value.format = "Dolby Vision"

\* verify_file_integrity has returned
Verified == call.fn = "verify_file_integrity" /\ call_ret # NotCalled

\* the structural read succeeded: exit status 0, non-empty output that parses
\* as metadata with its format and streams, and at least one stream
ReadSucceeded(arg) ==
    /\ arg.raises = "no"
    /\ arg.returncode = 0
    /\ arg.stdout # ""
    /\ JsonLoads(arg.stdout).parsed
    /\ JsonLoads(arg.stdout).format
    /\ JsonLoads(arg.stdout).streams
    /\ JsonLoads(arg.stdout).n >= 1

(* C25: verify returns valid=true if and only if the structural read exits    *)
(* with status 0, yields non-empty output that parses as well-formed          *)
(* metadata, and reports at least one stream; every other case returns        *)
(* valid=false together with a non-empty diagnostic string.                   *)
C25_InvalidHasDiagnostic ==
    Verified
      => /\ call_ret.value.is_valid <=> ReadSucceeded(call.arg)
         /\ ~call_ret.value.is_valid
              => /\ ~call_ret.value.none
                 /\ call_ret.value.error_message # ""

-----------------------------------------------------------------------------
(* The pipeline with no tracker wired in: the steps of process_file as they   *)
(* are when corruption_tracker is None, which say nothing about the ledger.   *)

\* everything but the tracker and its ledger
coreVars ==
    <<fs, isMkv, codec, duration, radarr_enabled, run, pc, info, est_minutes,
      should_blocklist, failure_reason, success, deleted, retval, exit_code,
      terminal, output_size, gate, events, recoveries, atStart, call, call_ret>>

\* what a run does not write, the tracker left out
coreEnvVars ==
    <<isMkv, codec, duration, radarr_enabled, run, atStart, call, call_ret>>

VerifyInputCore ==
    /\ pc = "verify_input"
    /\ \E o \in VerifyOutcomes(fs["orig"]) :
        /\ events' = Append(events, Event("verify", "orig", VerifyValid(o)))
        /\ IF VerifyValid(o)
           THEN /\ pc' = "get_info"
                /\ UNCHANGED <<should_blocklist, failure_reason, retval, terminal>>
           ELSE /\ should_blocklist' = TRUE
                /\ failure_reason' = "Input file corrupted"
                /\ retval' = "false"
                /\ terminal' = "InputCorrupt"
                /\ pc' = "finally"
    /\ UNCHANGED <<fs, coreEnvVars, info, est_minutes, success, deleted, exit_code,
                   output_size, gate, recoveries>>

VerifyOutputCore ==
    /\ pc = "verify_output"
    /\ IF VERIFY_OUTPUT
       THEN \E o \in VerifyOutcomes(fs["tmp"]) :
            /\ events' = Append(events, Event("verify", "tmp", VerifyValid(o)))
            /\ IF VerifyValid(o)
               THEN /\ fs' = fs
                    /\ pc' = "move"
                    /\ UNCHANGED <<success, terminal>>
               ELSE /\ fs' = RemoveTemp
                    /\ ConvertFails("OutputCorrupt")
       ELSE /\ pc' = "move"
            /\ UNCHANGED <<fs, success, terminal, events>>
    /\ UNCHANGED <<coreEnvVars, info, est_minutes, should_blocklist, failure_reason, deleted,
                   retval, exit_code, output_size, gate, recoveries>>

ConvertReturnCore ==
    /\ pc = "convert_return"
    /\ IF ~success
       THEN /\ should_blocklist' = TRUE
            /\ failure_reason' = "Conversion process failed"
            /\ retval' = "false"
            /\ pc' = "finally"
       ELSE /\ pc' = "safe_delete"
            /\ UNCHANGED <<should_blocklist, failure_reason, retval>>
    /\ UNCHANGED <<fs, coreEnvVars, info, est_minutes, success, deleted, exit_code, terminal,
                   output_size, gate, events, recoveries>>

SafeDeleteOriginalCore ==
    /\ pc = "safe_delete"
    /\ \E po \in ProbeOutcomes(fs["out"]), vo \in VerifyOutcomes(fs["out"]),
          rm \in BOOLEAN :
        LET outExists == fs["out"].exists
            probed    == outExists /\ po = "info"
            verified  == probed /\ VerifyValid(vo)
            del       == CanDelete(outExists, probed, verified) /\ rm
            ev1 == IF outExists
                   THEN Append(events, Event("probe", "out", probed))
                   ELSE events
            ev2 == IF probed
                   THEN Append(ev1, Event("verify", "out", VerifyValid(vo)))
                   ELSE ev1
            ev3 == IF CanDelete(outExists, probed, verified)
                   THEN Append(ev2, Event("remove", "orig", rm))
                   ELSE ev2
        IN  /\ events' = ev3
            /\ fs' = IF del THEN SetFile("orig", NoFile) ELSE fs
            /\ deleted' = del
            /\ terminal' = IF del THEN "Done" ELSE "ManualReviewRequired"
    /\ pc' = "log_success"
    /\ UNCHANGED <<coreEnvVars, info, est_minutes, should_blocklist, failure_reason, success,
                   retval, exit_code, output_size, gate, recoveries>>

LogSuccessCore ==
    /\ pc = "log_success"
    /\ retval' = "true"
    /\ pc' = "finally"
    /\ UNCHANGED <<fs, coreEnvVars, info, est_minutes, should_blocklist, failure_reason, success,
                   deleted, exit_code, terminal, output_size, gate, events,
                   recoveries>>

FinallyCore ==
    /\ pc = "finally"
    /\ IF should_blocklist
       THEN \E did \in RecoveryRuns[failure_reason, radarr_enabled] :
                recoveries' = Append(recoveries,
                                     [reason |-> failure_reason,
                                      result |-> did.result,
                                      requests |-> did.requests])
       ELSE UNCHANGED recoveries
    /\ pc' = "main_exit"
    /\ UNCHANGED <<fs, coreEnvVars, info, est_minutes, should_blocklist, failure_reason, success,
                   deleted, retval, exit_code, terminal, output_size, gate,
                   events>>

\* the steps that do not call the tracker are the same with and without it
CoreNext ==
    \/ ProcessFileEntry
    \/ VerifyInputCore
    \/ GetVideoInfo
    \/ EstimateConversion
    \/ ConvertBegin
    \/ FfmpegExit
    \/ Interrupt
    \/ SizeCheck
    \/ VerifyOutputCore
    \/ MoveToFinal
    \/ ConvertReturnCore
    \/ SafeDeleteOriginalCore
    \/ LogSuccessCore
    \/ FinallyCore
    \/ MainExit
    \/ NextRun

(* C26: the core state machine behaves identically whether or not the ledger  *)
(* is wired in: on the same tool and API results, every step of a run with a  *)
(* tracker, working or raising on every call, has the file-system effects,    *)
(* the return value and exit code, and the recovery invocation and reason of  *)
(* the step that the pipeline without a tracker takes.                        *)
C26_CoreIgnoresTracker ==
    [][CoreNext]_coreVars

C26_Witness ==
    /\ Ended
    /\ tracker = "raising"
    /\ terminal = "OutputCorrupt"
    /\ Len(recoveries) = 1
    /\ recoveries[1].reason = "Conversion process failed"
    /\ exit_code = 1

\* the events of this run of kind op
EventsOf(op) == {i \in 1..Len(events) : events[i].op = op}

(* C27: no step is retried within one invocation: in any run the transcode    *)
(* tool is invoked at most once, each verification checkpoint (input, temp    *)
(* artifact, final path) is attempted at most once, and the first failure,    *)
(* a timeout included, is terminal: no step of the run follows it.            *)
C27_NoRetry ==
    /\ Cardinality(EventsOf("transcode")) <= 1
    /\ \A i, j \in EventsOf("verify") :
          events[i].target = events[j].target => i = j
    /\ \A i, j \in 1..Len(events) :
          (events[i].op = events[j].op /\ events[i].target = events[j].target)
             => i = j
    /\ \A i \in 1..Len(events) : ~events[i].ok => i = Len(events)

C27_Witness ==
    /\ Ended
    /\ terminal = "OutputCorrupt"
    /\ Cardinality(EventsOf("transcode")) = 1
    /\ Happened(Event("verify", "orig", TRUE))
    /\ events[Len(events)] = Event("verify", "tmp", FALSE)

\* the outcomes of the taxonomy that a failing run can end in
FailureTaxonomy ==
    {"InputCorrupt", "UnreadableStreams", "ConversionProcessFailed",
     "OutputTooSmall", "OutputCorrupt", "PromotionFailed"}

(* C28: each failing run ends in exactly one outcome of the taxonomy and the  *)
(* reason handed to the recovery identifies it: "Conversion process failed"   *)
(* is handed over only for ConversionProcessFailed, so that OutputTooSmall,   *)
(* OutputCorrupt and PromotionFailed come with reasons of their own, as       *)
(* InputCorrupt ("Input file corrupted") and UnreadableStreams ("Cannot read  *)
(* video streams") do.                                                        *)
C28_ReasonIdentifiesOutcome ==
    (Ended /\ Len(recoveries) = 1)
      => /\ terminal \in FailureTaxonomy
         /\ recoveries[1].reason = "Input file corrupted"
               <=> terminal = "InputCorrupt"
         /\ recoveries[1].reason = "Cannot read video streams"
               <=> terminal = "UnreadableStreams"
         /\ recoveries[1].reason = "Conversion process failed"
               <=> terminal = "ConversionProcessFailed"

\* jellyfin_playback has answered an event (a request with a JSON object)
Answering == call.fn = "jellyfin_playback" /\ call_ret # NotCalled /\ call.arg.json

\* a stop or mark-played event
StopEvent(arg) == Get(arg.Event, "") \in {"PlaybackStop", "item.markplayed"}

\* the position is at least 90% of a positive runtime
WatchedThrough(arg) ==
    /\ Get(arg.RunTimeTicks, 1) > 0
    /\ Get(arg.PositionTicks, 0) * 100 >= 90 * Get(arg.RunTimeTicks, 1)

(* C29: the playback webhook forwards a payload to the smart-download         *)
(* heuristic only if the event is a stop or mark-played event whose position  *)
(* is at least 90% of the runtime; every other event (another type, a ratio   *)
(* below 90%, a runtime that is zero or negative) is answered as ignored and  *)
(* is not forwarded.                                                          *)
C29_ForwardsOnlyCompleteWatch ==
    Answering
      => /\ call_ret.value.forwarded
              => StopEvent(call.arg) /\ WatchedThrough(call.arg)
         /\ ~(StopEvent(call.arg) /\ WatchedThrough(call.arg))
              => /\ call_ret.value.status = "ignored"
                 /\ ~call_ret.value.forwarded

\* get_radarr_config has returned
Configured == call.fn = "get_radarr_config" /\ call_ret # NotCalled

FlagsRestored(i) ==
    [ledger'[i] EXCEPT !.blocklisted = ledger[i].blocklisted,
                       !.redownload = ledger[i].redownload]

(* C31: over any sequence of runs a ledger event is never mutated, except     *)
(* that an event created by the current run gets its remediation flags set    *)
(* when the recovery has completed: rows are only appended, only the flags of *)
(* a row change, and the flag update at the end of a failing run never        *)
(* touches an event appended by an earlier run.                               *)
C31_OnlyOwnEventFlagged ==
    [][/\ Len(ledger') >= Len(ledger)
       /\ \A i \in 1..Len(ledger) :
            ledger'[i] # ledger[i]
               => /\ pc = "finally"
                  /\ FlagsRestored(i) = ledger[i]
                  /\ ledger[i].run = run]_vars

(* C32: the remediation flags of an event are truthful per flag: on an event  *)
(* of the current run, blocklisted is true only if the download manager       *)
(* accepted a blocklist request in this run, and redownload_triggered is      *)
(* true only if it accepted a search request in this run.                     *)
C32_FlagsTruthful ==
    \A i \in RowsOfRun :
        /\ ledger[i].blocklisted
              => /\ Len(recoveries) = 1
                 /\ Answered(recoveries[1], "POST blocklist", {"ok"})
        /\ ledger[i].redownload
              => /\ Len(recoveries) = 1
                 /\ Answered(recoveries[1], "POST command", {"ok"})

(* C33: a run interrupted (KeyboardInterrupt) while the transcode is in       *)
(* progress cleans up before it exits with code 130: no temp artifact remains *)
(* on disk, the original is as it was and nothing exists at the final output  *)
(* path.                                                                      *)
C33_InterruptCleansUp ==
    (Ended /\ terminal = "Interrupted")
      => /\ exit_code = 130
         /\ ~fs["tmp"].exists
         /\ fs["orig"] = atStart["orig"]
         /\ ~fs["out"].exists

\* the tracker's database, once the tables exist
HasDb == call.fn = "CorruptionTracker" /\ call_ret # NotCalled

\* the events of the fact table that satisfy P
EventsWhere(P(_)) ==
    {i \in 1..Len(call_ret.value.events) : P(call_ret.value.events[i])}

(* C34: the per-publisher and per-format rollups agree with the fact table    *)
(* after any sequence of log_corruption_event and log_success_event calls:    *)
(* for every release group total_files is the number of events logged for     *)
(* the group and total_files = corrupted_files + success_files; for every     *)
(* (codec, hdr_format, source_type) key total_files is the number of events   *)
(* logged for the key and corrupted_files <= total_files.                     *)
C34_RollupsMatchFacts ==
    HasDb
      => /\ \A g \in ReleaseGroups :
              LET row == call_ret.value.publisher_stats[g]
              IN  /\ row.total_files =
                       Cardinality(EventsWhere(LAMBDA e : e.release_group = g))
                  /\ row.total_files = row.corrupted_files + row.success_files
                  /\ row.corrupted_files =
                       Cardinality(EventsWhere(LAMBDA e :
                           e.release_group = g /\ e.status # "success"))
         /\ \A k \in FormatKeys :
              LET row == call_ret.value.format_stats[k]
              IN  /\ row.total_files =
                       Cardinality(EventsWhere(LAMBDA e :
                           <<e.video_codec, e.hdr_format, e.source_type>> = k))
                  /\ row.corrupted_files <= row.total_files

C34_Witness ==
    /\ HasDb
    /\ Len(call_ret.value.events) = 3
    /\ call_ret.value.publisher_stats["FraMeSToR"].total_files = 2
    /\ call_ret.value.publisher_stats["FraMeSToR"].success_files = 1
    /\ call_ret.value.publisher_stats["Unknown"].corrupted_files = 1
    /\ call_ret.value.format_stats[<<"hevc", "HDR10", "REMUX">>].total_files = 1

\* the last call of the session inserted an event
Inserted ==
    /\ HasDb
    /\ \/ call_ret.last.fn = "log_corruption_event"
       \/ call_ret.last.fn = "log_success_event" /\ call_ret.last.probed

\* the metadata the last call logged
LastMetadata ==
    IF call_ret.last.probed THEN ExtractMetadata(call_ret.last.file)
    ELSE MinimalMetadata

\* the stored rate of a rollup row is corrupted_files / total_files * 100 of
\* the row's counters
RateIsCurrent(row) ==
    /\ ~row.corruption_rate.null
    /\ row.corruption_rate.num * row.total_files
          = row.corrupted_files * row.corruption_rate.den

(* C35: after every insert into the ledger, the stored corruption_rate of the *)
(* affected publisher row and of the affected format row equals               *)
(* corrupted_files / total_files * 100 computed from the row's counters as    *)
(* they are after the insert, the first insert for a new key included.        *)
C35_RateIsCurrent ==
    Inserted
      => /\ RateIsCurrent(
               call_ret.value.publisher_stats[LastMetadata.release_group])
         /\ RateIsCurrent(
               call_ret.value.format_stats[<<LastMetadata.video_codec,
                                             LastMetadata.hdr_format,
                                             LastMetadata.source_type>>])

(* C36: for every combination of probe signals the HDR result is internally   *)
(* consistent: is_hdr is true if and only if the format is not 'SDR', also    *)
(* when the only HDR signal is content-light-level side data.                 *)
C36_HdrIffNotSdr ==
    (InHdr /\ call_ret.done /\ ~call_ret.raised)
      => (call_ret.value.is_hdr <=> call_ret.value.format # "SDR")

(* C37: a run on a path whose output already exists, and a run on an input    *)
(* whose suffix is not .mkv, change nothing: no file is created, modified or  *)
(* deleted, no verifier, prober or transcode tool is invoked, no ledger event *)
(* is appended and the recovery is not invoked.                               *)
C37_SkipsChangeNothing ==
    (pc # "entry" /\ (~isMkv \/ atStart["out"].exists))
      => /\ fs = atStart
         /\ events = <<>>
         /\ RowsOfRun = {}
         /\ recoveries = <<>>
         /\ ~should_blocklist

C37_Witness ==
    /\ Ended
    /\ terminal = "AlreadyExists"
    /\ isMkv
    /\ fs["orig"].exists /\ fs["out"].exists
    /\ exit_code = 0

(* C38: a stale temp artifact left at the temp path by an earlier run is      *)
(* removed before the transcode tool starts, so that the temp artifact that   *)
(* is size-checked, verified and promoted in a run is one written by that     *)
(* run's transcode; and after any run that ends without interrupt no temp     *)
(* artifact exists at the temp path.                                          *)
C38_NoStaleTemp ==
    /\ (pc \in {"size_check", "verify_output", "move"} /\ fs["tmp"].exists)
          => fs["tmp"].by = run
    /\ (Ended /\ terminal # "Interrupted") => ~fs["tmp"].exists

\* blocklist_release_in_radarr has returned
RecoverReturned == call.fn = "blocklist_release_in_radarr" /\ call_ret.done

\* the requests that change something in the download manager
Remediations == {"POST blocklist", "POST command", "DELETE moviefile"}

(* C39: in every call of the recovery at most one blocklist request, at most  *)
(* one search request and at most one file-record delete request are sent;    *)
(* when the integration is not configured (empty API key) or the title is not *)
(* found in the catalog none of them is sent and the call returns failure.    *)
C39_AtMostOneOfEach ==
    RecoverReturned
      => /\ \A kind \in Remediations :
              Cardinality(RequestsTo(call_ret.value, kind)) <= 1
         /\ (~call.arg.enabled \/ call.arg.api.movie # "found")
              => /\ \A kind \in Remediations :
                      RequestsTo(call_ret.value, kind) = {}
                 /\ ~call_ret.value.result

C39_Witness ==
    /\ RecoverReturned
    /\ call.arg.enabled
    /\ call.arg.api.movie = "found"
    /\ call.arg.api.search = "status"
    /\ \A kind \in Remediations :
          Cardinality(RequestsTo(call_ret.value, kind)) = 1
    /\ call_ret.value.result

=============================================================================
